---- MODULE Spec2Model ----
(***************************************************************************)
(* A model of the compose plugin of athom-cli                              *)
(* (lib/AppPluginCompose/index.js, on top of lib/AppPlugin/index.js).      *)
(*                                                                         *)
(* The state is the app directory: the files the plugin reads and writes  *)
(* and the directory listings it enumerates, plus a record of every        *)
(* compose run made so far.  One action, Run, is one call of               *)
(* AppPluginCompose.run(); its steps are operators over a run context that *)
(* carries the in-progress manifest (this._appJson), the file system and   *)
(* the error thrown, if any.                                               *)
(*                                                                         *)
(* Spec runs compose as one action, SpecSteps statement by statement.      *)
(* SpecApp calls the methods of App (lib/App/index.js) that work on the    *)
(* app directory, and GitCommands.isGitRepo; SpecSession is an app session *)
(* with its std events and Ctrl+C.                                         *)
(***************************************************************************)
EXTENDS Naturals, Sequences, FiniteSets, TLC

VARIABLES
    files,  \* path -> [kind, doc]: the regular files of the app directory
    dirs,   \* path -> [st, names]: the entry names in directory-listing order
    runs,   \* one record per compose run made so far, oldest first
    pc,     \* the step of run() that is to start next, "idle" outside a run
    ctx,    \* the plugin instance of the run in progress
    calls,  \* one record per App or GitCommands method called so far
    app,    \* the App instance while an app session runs
    io      \* what the session is waiting for: promises, events, Ctrl+C

vars == <<files, dirs, runs, pc, ctx, calls, app, io>>

(***************************************************************************)
(* Strings.  TLC evaluates Len, SubSeq and \o on strings, so the string    *)
(* tests of the source are computed on the characters.                     *)
(***************************************************************************)

\* s.indexOf(p) === 0
StartsWith(s, p) == Len(s) >= Len(p) /\ SubSeq(s, 1, Len(p)) = p

EndsWith(s, p) == Len(s) >= Len(p) /\ SubSeq(s, Len(s) - Len(p) + 1, Len(s)) = p

\* key.indexOf('$') === 0
StartsWithDollar(key) == StartsWith(key, "$")

\* name.indexOf('.') === 0
StartsWithDot(name) == StartsWith(name, ".")

\* path.join(a, b)
Join(a, b) == a \o "/" \o b

\* the position of the last '.' in s at or before i, 0 when there is none
RECURSIVE LastDotUpTo(_, _)
LastDotUpTo(s, i) ==
    IF i = 0 THEN 0
    ELSE IF SubSeq(s, i, i) = "." THEN i
    ELSE LastDotUpTo(s, i - 1)

\* path.extname(name) of an entry name (no directory part): from the last
\* '.' to the end; empty when there is no '.' or it is the first character
ExtName(name) ==
    LET d == LastDotUpTo(name, Len(name))
    IN  IF d <= 1 THEN "" ELSE SubSeq(name, d, Len(name))

\* path.basename(name, ext) of an entry name
BaseName(name, ext) ==
    IF name # ext /\ EndsWith(name, ext)
    THEN SubSeq(name, 1, Len(name) - Len(ext))
    ELSE name

\* s.split('.') scanning from position i with the current segment starting
\* at position from
RECURSIVE SplitDotsFrom(_, _, _)
SplitDotsFrom(s, from, i) ==
    IF i > Len(s) THEN << SubSeq(s, from, Len(s)) >>
    ELSE IF SubSeq(s, i, i) = "."
         THEN << SubSeq(s, from, i - 1) >> \o SplitDotsFrom(s, i + 1, i + 1)
         ELSE SplitDotsFrom(s, from, i + 1)

SplitDots(s) == SplitDotsFrom(s, 1, 1)

\* html.replace(/{{assets}}/g, rep), scanning from position i
RECURSIVE ReplaceAllFrom(_, _, _, _)
ReplaceAllFrom(s, pat, rep, i) ==
    IF i > Len(s) THEN ""
    ELSE IF i + Len(pat) - 1 <= Len(s) /\ SubSeq(s, i, i + Len(pat) - 1) = pat
         THEN rep \o ReplaceAllFrom(s, pat, rep, i + Len(pat))
         ELSE SubSeq(s, i, i) \o ReplaceAllFrom(s, pat, rep, i + 1)

ReplaceAll(s, pat, rep) == ReplaceAllFrom(s, pat, rep, 1)

(***************************************************************************)
(* JSON documents.  A document is a record [t, s, kv]: t is the JavaScript *)
(* kind of the value, s the text of a scalar, kv the own enumerable        *)
(* properties in enumeration order (for an array: the indices "0", "1",    *)
(* ...), each an entry [k, v].  The enumeration order of an object, which  *)
(* for-in follows and JSON.stringify writes, is: the keys that are array   *)
(* indices (canonical decimal integers) in ascending numeric order, then   *)
(* the other keys in insertion order.                                      *)
(***************************************************************************)

Undef == [t |-> "undef", s |-> "", kv |-> <<>>]
Null == [t |-> "null", s |-> "", kv |-> <<>>]
Str(x) == [t |-> "str", s |-> x, kv |-> <<>>]
Num(x) == [t |-> "num", s |-> x, kv |-> <<>>]
Obj(entries) == [t |-> "obj", s |-> "", kv |-> entries]
KV(key, val) == [k |-> key, v |-> val]

RECURSIVE IndexEntries(_, _)
IndexEntries(items, i) ==
    IF i > Len(items) THEN <<>>
    ELSE << KV(ToString(i - 1), items[i]) >> \o IndexEntries(items, i + 1)

Arr(items) == [t |-> "arr", s |-> "", kv |-> IndexEntries(items, 1)]

IsObj(d) == d.t = "obj"
IsArr(d) == d.t = "arr"
\* Array.isArray(d)
ArrayIsArray(d) == d.t = "arr"
\* typeof d === 'object'
TypeofObject(d) == d.t \in {"obj", "arr", "null"}

\* !!d
Truthy(d) ==
    CASE d.t \in {"undef", "null"} -> FALSE
      [] d.t = "str" -> d.s # ""
      [] d.t = "num" -> d.s # "0"
      [] d.t = "bool" -> d.s = "true"
      [] OTHER -> TRUE

\* a || b
Or(a, b) == IF Truthy(a) THEN a ELSE b

RECURSIVE IndexOfKey(_, _, _)
IndexOfKey(entries, key, i) ==
    IF i > Len(entries) THEN 0
    ELSE IF entries[i].k = key THEN i
    ELSE IndexOfKey(entries, key, i + 1)

\* key in d (own property)
Has(d, key) == IndexOfKey(d.kv, key, 1) # 0

\* d[key]
Get(d, key) ==
    LET i == IndexOfKey(d.kv, key, 1)
    IN  IF i = 0 THEN Undef ELSE d.kv[i].v

\* the decimal digits, and the value of the digits of key up to position j
Digits == "0123456789"
IsDigit(ch) == \E j \in 1..Len(Digits) : SubSeq(Digits, j, j) = ch
DigitOf(ch) == (CHOOSE j \in 1..Len(Digits) : SubSeq(Digits, j, j) = ch) - 1
RECURSIVE NumberUpTo(_, _)
NumberUpTo(key, j) ==
    IF j = 0 THEN 0 ELSE NumberUpTo(key, j - 1) * Len(Digits) + DigitOf(SubSeq(key, j, j))

\* key is an array index: digits only, no leading zero (indices of ten
\* digits and more are beyond the integers used here and are taken as
\* ordinary keys)
IsIndexKey(key) ==
    /\ Len(key) > 0 /\ Len(key) < Len(Digits)
    /\ \A j \in 1..Len(key) : IsDigit(SubSeq(key, j, j))
    /\ Len(key) = 1 \/ SubSeq(key, 1, 1) # "0"

\* the number of properties that are enumerated before a new property key
EnumeratedBefore(entries, key) ==
    IF IsIndexKey(key)
    THEN Cardinality({ j \in 1..Len(entries) :
                         /\ IsIndexKey(entries[j].k)
                         /\ NumberUpTo(entries[j].k, Len(entries[j].k))
                              < NumberUpTo(key, Len(key)) })
    ELSE Len(entries)

\* d[key] = val: an existing property keeps its place, a new one takes its
\* place in the enumeration order
Set(d, key, val) ==
    LET i == IndexOfKey(d.kv, key, 1)
    IN  IF i = 0
        THEN [d EXCEPT !.kv = SubSeq(@, 1, EnumeratedBefore(@, key))
                                \o << KV(key, val) >>
                                \o SubSeq(@, EnumeratedBefore(@, key) + 1, Len(@))]
        ELSE [d EXCEPT !.kv[i].v = val]

\* delete d[key]
Delete(d, key) == [d EXCEPT !.kv = SelectSeq(@, LAMBDA e : e.k # key)]

RECURSIVE Values(_, _)
Values(entries, i) ==
    IF i > Len(entries) THEN <<>>
    ELSE << entries[i].v >> \o Values(entries, i + 1)

\* the elements of an array, the property values of an object
Items(d) == Values(d.kv, 1)

\* arr.push(val)
Push(arr, val) == Arr(Append(Items(arr), val))

\* arr.unshift(val)
Unshift(arr, val) == Arr(<< val >> \o Items(arr))

RECURSIVE SetAll(_, _, _)
SetAll(d, entries, i) ==
    IF i > Len(entries) THEN d
    ELSE SetAll(Set(d, entries[i].k, entries[i].v), entries, i + 1)

\* { ...a, ...b }: spreading undefined adds nothing
Spread(a, b) == SetAll(SetAll(Obj(<<>>), a.kv, 1), b.kv, 1)

\* JSON.parse(JSON.stringify(d)): a property whose value is undefined is
\* not written, an undefined array element is written as null
RECURSIVE JsonRoundTrip(_)
RECURSIVE RoundTripEntries(_, _, _)
RoundTripEntries(entries, isArr, i) ==
    IF i > Len(entries) THEN <<>>
    ELSE LET e == entries[i]
         IN  IF e.v.t = "undef"
             THEN (IF isArr THEN << KV(e.k, Null) >> ELSE <<>>)
                  \o RoundTripEntries(entries, isArr, i + 1)
             ELSE << KV(e.k, JsonRoundTrip(e.v)) >>
                  \o RoundTripEntries(entries, isArr, i + 1)

JsonRoundTrip(d) ==
    IF d.t \in {"obj", "arr"}
    THEN [d EXCEPT !.kv = RoundTripEntries(d.kv, d.t = "arr", 1)]
    ELSE d

\* JSON.stringify(d) as text; the indentation (appJsonSpace) is the same
\* for every write of a run and is left out
RECURSIVE JsonStringify(_)
RECURSIVE StringifyEntries(_, _, _)
StringifyEntries(entries, isArr, i) ==
    IF i > Len(entries) THEN ""
    ELSE (IF i > 1 THEN "," ELSE "")
         \o (IF isArr THEN "" ELSE "\"" \o entries[i].k \o "\":")
         \o JsonStringify(entries[i].v)
         \o StringifyEntries(entries, isArr, i + 1)

JsonStringify(d) ==
    CASE d.t = "obj" -> "{" \o StringifyEntries(d.kv, FALSE, 1) \o "}"
      [] d.t = "arr" -> "[" \o StringifyEntries(d.kv, TRUE, 1) \o "]"
      [] d.t = "str" -> "\"" \o d.s \o "\""
      [] d.t = "null" -> "null"
      [] OTHER -> d.s

\* removeDollarPropertiesRecursive without the recursion into the values
removeDollarPropertiesShallow(obj) ==
    IF ~TypeofObject(obj) THEN obj
    ELSE [obj EXCEPT !.kv = SelectSeq(@, LAMBDA e : ~StartsWithDollar(e.k))]

(***************************************************************************)
(* _saveAppJson's removeDollarPropertiesRecursive: for-in over the own     *)
(* properties (array indices included), deleting every key that begins     *)
(* with '$' and recursing into every other value.                          *)
(***************************************************************************)
RECURSIVE removeDollarPropertiesRecursive(_)
RECURSIVE RemoveDollarEntries(_, _)
RemoveDollarEntries(entries, i) ==
    IF i > Len(entries) THEN <<>>
    ELSE IF StartsWithDollar(entries[i].k)
         THEN RemoveDollarEntries(entries, i + 1)
         ELSE << KV(entries[i].k, removeDollarPropertiesRecursive(entries[i].v)) >>
              \o RemoveDollarEntries(entries, i + 1)

removeDollarPropertiesRecursive(obj) ==
    IF ~TypeofObject(obj) THEN obj
    ELSE [obj EXCEPT !.kv = RemoveDollarEntries(obj.kv, 1)]

(***************************************************************************)
(* The two npm packages _composeLocales calls, with their default options. *)
(* deepmerge(target, source): kinds that differ (array against non-array)  *)
(* give the source, two arrays are concatenated, otherwise the keys of a   *)
(* mergeable target are copied and every source key is set: merged         *)
(* recursively when the source value is an object or array and the target  *)
(* holds a truthy value there, the source value otherwise.  A target that  *)
(* is no object (undefined, a scalar) contributes no key.                  *)
(***************************************************************************)
isMergeableObject(value) == value.t \in {"obj", "arr"}

RECURSIVE deepmerge(_, _)
RECURSIVE mergeObjectKeys(_, _, _, _)
mergeObjectKeys(destination, target, source, i) ==
    IF i > Len(source.kv) THEN destination
    ELSE LET key == source.kv[i].k
             val == source.kv[i].v
             old == IF isMergeableObject(target) THEN Get(target, key) ELSE Undef
         IN  mergeObjectKeys(
                 IF ~isMergeableObject(val) \/ ~Truthy(old)
                 THEN Set(destination, key, val)
                 ELSE Set(destination, key, deepmerge(old, val)),
                 target, source, i + 1)

mergeObject(target, source) ==
    mergeObjectKeys(IF isMergeableObject(target) THEN Obj(target.kv) ELSE Obj(<<>>),
                    target, source, 1)

defaultArrayMerge(target, source) == Arr(Items(target) \o Items(source))

deepmerge(target, source) ==
    IF ArrayIsArray(source) # ArrayIsArray(target) THEN source
    ELSE IF ArrayIsArray(source) THEN defaultArrayMerge(target, source)
    ELSE mergeObject(target, source)

\* objectPath.get(obj, path) with path an array of keys
RECURSIVE objectPathGet(_, _)
objectPathGet(obj, path) ==
    IF Len(path) = 0 THEN obj
    ELSE IF ~Has(obj, Head(path)) THEN Undef
    ELSE objectPathGet(Get(obj, Head(path)), Tail(path))

\* objectPath.set(obj, path, value): a missing intermediate object is
\* created; a value that is no object is left as it is
RECURSIVE objectPathSet(_, _, _)
objectPathSet(obj, path, value) ==
    IF Len(path) = 0 \/ ~isMergeableObject(obj) THEN obj
    ELSE IF Len(path) = 1 THEN Set(obj, Head(path), value)
    ELSE LET currentValue == Get(obj, Head(path))
         IN  Set(obj, Head(path),
                 objectPathSet(IF currentValue.t = "undef" THEN Obj(<<>>) ELSE currentValue,
                               Tail(path), value))

(***************************************************************************)
(* The file system and the errors of a run.  A file is [kind, doc]: kind   *)
(* "json" holds the document its text parses to, "malformed" is text that  *)
(* JSON.parse rejects, "text" holds a string document (markup), "eacces"   *)
(* is a file that cannot be read.  A directory is [st, names].  A path     *)
(* outside the domain does not exist.                                      *)
(***************************************************************************)
NoErr == [thrown |-> FALSE, code |-> "", msg |-> ""]
Err(errCode, message) == [thrown |-> TRUE, code |-> errCode, msg |-> message]
\* throw new Error(err): the message is kept, the code is not
NewError(err) == Err("", err.msg)

File(fileKind, content) == [kind |-> fileKind, doc |-> content]
JsonFile(content) == File("json", content)
Malformed == File("malformed", Undef)
TextFile(text) == File("text", Str(text))
Dir(entryNames) == [st |-> "ok", names |-> entryNames]

Ok(value) == [err |-> NoErr, val |-> value]
Fail(error) == [err |-> error, val |-> Undef]

\* fs.readFile
readFileAsync(fs, filePath) ==
    IF filePath \notin DOMAIN fs THEN Fail(Err("ENOENT", "ENOENT: no such file or directory"))
    ELSE IF fs[filePath].kind = "eacces" THEN Fail(Err("EACCES", "EACCES: permission denied"))
    ELSE Ok(fs[filePath])

\* fs.writeFile: the directory must exist; a new file is listed last
writeFileAsync(c, dirPath, name, file) ==
    IF dirPath \notin DOMAIN c.dirs \/ c.dirs[dirPath].st # "ok"
    THEN [c EXCEPT !.err = Err("ENOENT", "ENOENT: no such file or directory")]
    ELSE LET filePath == Join(dirPath, name)
             listed == \E i \in 1..Len(c.dirs[dirPath].names) : c.dirs[dirPath].names[i] = name
         IN  [c EXCEPT !.files = [q \in DOMAIN c.files \cup {filePath} |->
                                     IF q = filePath THEN file ELSE c.files[q]],
                       !.dirs[dirPath].names = IF listed THEN @ ELSE Append(@, name),
                       !.writes = Append(@, filePath)]

\* AppPlugin._getFiles: any failure of readdir gives the empty list
_getFiles(ds, filesPath) ==
    IF filesPath \in DOMAIN ds /\ ds[filesPath].st = "ok" THEN ds[filesPath].names ELSE <<>>

\* AppPlugin._getJsonFile
_getJsonFile(fs, filePath) ==
    LET r == readFileAsync(fs, filePath)
    IN  IF r.err.thrown THEN r
        ELSE IF r.val.kind # "json" THEN Fail(Err("", "Error in file"))
        ELSE Ok(r.val.doc)

\* AppPlugin._getJsonFiles: the loop over the listing from entry i on
RECURSIVE GetJsonFilesFrom(_, _, _, _, _)
GetJsonFilesFrom(fs, filesPath, names, i, result) ==
    IF i > Len(names) THEN Ok(result)
    ELSE IF ExtName(names[i]) # ".json"
         THEN GetJsonFilesFrom(fs, filesPath, names, i + 1, result)
         ELSE LET r == _getJsonFile(fs, Join(filesPath, names[i]))
              IN  IF r.err.thrown THEN r
                  ELSE GetJsonFilesFrom(fs, filesPath, names, i + 1,
                                        Set(result, BaseName(names[i], ".json"), r.val))

_getJsonFiles(fs, ds, filesPath) ==
    GetJsonFilesFrom(fs, filesPath, _getFiles(ds, filesPath), 1, Obj(<<>>))

(***************************************************************************)
(* AppPluginCompose.  A run context c is the plugin instance during run(): *)
(* appJson is this._appJson, files and dirs the file system as the run has *)
(* changed it so far, err the error thrown (none while the run goes on),   *)
(* resolved and localeSteps what the driver and locale loops computed,     *)
(* writes the paths of the files written so far, in order.                 *)
(* Every step is awaited: it starts when the one before it has returned,   *)
(* and once an error is thrown the steps that follow do nothing.           *)
(***************************************************************************)
AppPath == "/app"
AppPathCompose == Join(AppPath, ".homeycompose")
AppJsonName == "app.json"
FLOW_TYPES == << "triggers", "conditions", "actions" >>

Throw(c, error) == [c EXCEPT !.err = error]

\* run(), lines 51-68: the base manifest and the compose-root overlay
LoadAppJson(c) ==
    LET base == _getJsonFile(c.files, Join(AppPath, AppJsonName))
        over == _getJsonFile(c.files, Join(AppPathCompose, AppJsonName))
    IN  IF base.err.thrown THEN Throw(c, base.err)
        ELSE IF over.err.thrown /\ over.err.code # "ENOENT" THEN Throw(c, NewError(over.err))
        ELSE LET _appJsonCompose == IF over.err.thrown THEN Obj(<<>>) ELSE over.val
             IN  [c EXCEPT !.appJson = Spread(_appJsonCompose, base.val)]

\* _addFlowCard that replaces the card of the same id, if there is one
_addFlowCardOncePerId(c, type, card, id) ==
    LET cardId == Or(Or(Get(card, "$id"), Get(card, "id")), id)
        flow == Or(Get(c.appJson, "flow"), Obj(<<>>))
        list == Or(Get(flow, type), Arr(<<>>))
        others == SelectSeq(Items(list), LAMBDA other : Get(other, "id") # cardId)
    IN  [c EXCEPT !.appJson =
            Set(c.appJson, "flow",
                Set(flow, type, Arr(Append(others, Set(card, "id", cardId)))))]

\* _addFlowCard with the card's own id tried before its $id
_addFlowCardOwnIdFirst(c, type, card, id) ==
    LET cardId == Or(Or(Get(card, "id"), Get(card, "$id")), id)
        flow == Or(Get(c.appJson, "flow"), Obj(<<>>))
        list == Or(Get(flow, type), Arr(<<>>))
    IN  [c EXCEPT !.appJson =
            Set(c.appJson, "flow", Set(flow, type, Push(list, Set(card, "id", cardId))))]

\* lines 262-273
_addFlowCard(c, type, card, id) ==
    LET cardId == Or(Or(Get(card, "$id"), Get(card, "id")), id)
        flow == Or(Get(c.appJson, "flow"), Obj(<<>>))
        list == Or(Get(flow, type), Arr(<<>>))
    IN  [c EXCEPT !.appJson =
            Set(c.appJson, "flow", Set(flow, type, Push(list, Set(card, "id", cardId))))]

\* _composeFlow: the cards of one kind from entry i on
RECURSIVE AddGlobalCards(_, _, _, _)
AddGlobalCards(c, type, cards, i) ==
    IF i > Len(cards.kv) THEN c
    ELSE AddGlobalCards(
             _addFlowCard(c, type, cards.kv[i].v, Str(BaseName(cards.kv[i].k, ".json"))),
             type, cards, i + 1)

RECURSIVE ComposeFlowTypes(_, _)
ComposeFlowTypes(c, i) ==
    IF i > Len(FLOW_TYPES) \/ c.err.thrown THEN c
    ELSE LET type == FLOW_TYPES[i]
             cards == _getJsonFiles(c.files, c.dirs, Join(Join(AppPathCompose, "flow"), type))
         IN  IF cards.err.thrown THEN Throw(c, cards.err)
             ELSE ComposeFlowTypes(AddGlobalCards(c, type, cards.val, 1), i + 1)

\* _composeFlow without `delete this._appJson.flow`
_composeFlowKeepingCards(c) == IF c.err.thrown THEN c ELSE ComposeFlowTypes(c, 1)

_composeFlow(c) ==
    IF c.err.thrown THEN c
    ELSE ComposeFlowTypes([c EXCEPT !.appJson = Delete(@, "flow")], 1)

(***************************************************************************)
(* _composeDrivers.  c.driverJson is the loop's local driverJson.          *)
(***************************************************************************)
DriverPath(driverId) == Join(Join(AppPath, "drivers"), driverId)
TemplatesPath == Join(Join(AppPathCompose, "drivers"), "templates")
ComposePairPath == Join(Join(AppPathCompose, "drivers"), "pair")

\* lines 102-108: templateJson after the templates from position j on
RECURSIVE FoldTemplates(_, _, _, _)
FoldTemplates(templates, ids, j, templateJson) ==
    IF j > Len(ids) THEN templateJson
    ELSE FoldTemplates(templates, ids, j + 1,
                       Spread(templateJson, Get(templates, ids[j].s)))

\* lines 96-97: a scalar $extends becomes a one-element list
NormalizeExtends(driverJson) ==
    IF ArrayIsArray(Get(driverJson, "$extends")) THEN driverJson
    ELSE Set(driverJson, "$extends", Arr(<< Get(driverJson, "$extends") >>))

\* the merge with the spreads of lines 110-113 in the other order
ExtendDriverTemplatesWin(driverJson, templates) ==
    LET normalized == NormalizeExtends(driverJson)
    IN  Spread(normalized,
               FoldTemplates(templates, Items(Get(normalized, "$extends")), 1, Obj(<<>>)))

\* lines 94-114: driverJson after the $extends merge, given the template table
ExtendDriver(driverJson, templates) ==
    LET normalized == NormalizeExtends(driverJson)
    IN  Spread(FoldTemplates(templates, Items(Get(normalized, "$extends")), 1, Obj(<<>>)),
               normalized)

\* line 93
ReadDriver(c, driverId) ==
    LET r == _getJsonFile(c.files, Join(DriverPath(driverId), "driver.compose.json"))
    IN  IF r.err.thrown THEN Throw(c, r.err) ELSE [c EXCEPT !.driverJson = r.val]

\* SetExtended with the id left as the descriptor or a template gives it
SetExtendedKeepingId(c, driverId, templates, extended) ==
    [c EXCEPT !.driverJson = IF Has(extended, "id") THEN extended
                             ELSE Set(extended, "id", Str(driverId)),
              !.resolved = Append(@, [id |-> driverId, own |-> c.driverJson,
                                      templates |-> templates, driverJson |-> extended])]

\* lines 110-116: driverJson after the merge and the id; resolved keeps the
\* descriptor as read, the template table and driverJson at line 114
SetExtended(c, driverId, templates, extended) ==
    [c EXCEPT !.driverJson = Set(extended, "id", Str(driverId)),
              !.resolved = Append(@, [id |-> driverId, own |-> c.driverJson,
                                      templates |-> templates, driverJson |-> extended])]

\* lines 99-114, with the template table as read
MergeTemplates(c, driverId, templates) ==
    IF templates.err.thrown THEN Throw(c, templates.err)
    ELSE SetExtended(c, driverId, templates.val, ExtendDriver(c.driverJson, templates.val))

\* lines 94-116
MergeExtends(c, driverId) ==
    IF c.err.thrown THEN c
    ELSE IF Truthy(Get(c.driverJson, "$extends"))
    THEN MergeTemplates(c, driverId, _getJsonFiles(c.files, c.dirs, TemplatesPath))
    ELSE SetExtended(c, driverId, Obj(<<>>), c.driverJson)

\* the settings merge with a catch that drops every error
MergeSettingsDroppingErrors(c, driverId) ==
    LET r == _getJsonFile(c.files, Join(DriverPath(driverId), "driver.settings.compose.json"))
    IN  IF c.err.thrown \/ r.err.thrown THEN c
        ELSE [c EXCEPT !.driverJson = Set(@, "settings", r.val)]

\* lines 118-123
MergeSettings(c, driverId) ==
    LET r == _getJsonFile(c.files, Join(DriverPath(driverId), "driver.settings.compose.json"))
    IN  IF c.err.thrown THEN c
        ELSE IF ~r.err.thrown THEN [c EXCEPT !.driverJson = Set(@, "settings", r.val)]
        ELSE IF r.err.code # "ENOENT" THEN Throw(c, NewError(r.err))
        ELSE c

\* `${value}` of a string or of undefined
TemplateString(value) == IF value.t = "undef" THEN "undefined" ELSE value.s

\* fse.ensureDir(appPairPath) under an existing driver directory
ensureDir(c, parentPath, name) ==
    IF Join(parentPath, name) \in DOMAIN c.dirs THEN c
    ELSE [c EXCEPT !.dirs = [q \in DOMAIN c.dirs \cup {Join(parentPath, name)} |->
                                IF q = Join(parentPath, name) THEN Dir(<<>>)
                                ELSE IF q = parentPath
                                     THEN [c.dirs[q] EXCEPT !.names = Append(@, name)]
                                     ELSE c.dirs[q]]]

\* fse.copy(src, dest) of a directory of files, from entry i on: the files
\* of src are written over those of dest
RECURSIVE CopyFiles(_, _, _, _, _)
CopyFiles(c, srcPath, destParent, destName, i) ==
    LET names == _getFiles(c.dirs, srcPath)
    IN  IF i > Len(names) \/ c.err.thrown THEN c
        ELSE CopyFiles(writeFileAsync(c, Join(destParent, destName), names[i],
                                      c.files[Join(srcPath, names[i])]),
                       srcPath, destParent, destName, i + 1)

\* lines 152-156: the assets of the template, when it has any
CopyPairAssets(c, appPairPath, composePairAssetsPath, viewId) ==
    IF c.err.thrown \/ composePairAssetsPath \notin DOMAIN c.dirs THEN c
    ELSE CopyFiles(ensureDir(c, appPairPath, viewId \o ".assets"),
                   composePairAssetsPath, appPairPath, viewId \o ".assets", 1)

\* lines 146-150: the markup, with the placeholder replaced
CopyPairHtml(c, appPairPath, html, viewId) ==
    IF html.err.thrown THEN Throw(c, html.err)
    ELSE writeFileAsync(c, appPairPath, viewId \o ".html",
                        TextFile(ReplaceAll(html.val.doc.s, "{{assets}}", viewId \o ".assets")))

\* lines 144-156 for a known template
CopyPairTemplate(c, driverId, templateId, viewId) ==
    CopyPairAssets(
        CopyPairHtml(ensureDir(c, DriverPath(driverId), "pair"),
                     Join(DriverPath(driverId), "pair"),
                     readFileAsync(c.files, Join(Join(ComposePairPath, templateId), "index.html")),
                     viewId),
        Join(DriverPath(driverId), "pair"),
        Join(Join(ComposePairPath, templateId), "assets"),
        viewId)

\* lines 144-156 without the test of lines 141-142
ExpandPairTemplateUnchecked(c, driverId, composePairViews, driverPairView) ==
    CopyPairTemplate(c, driverId, TemplateString(Get(driverPairView, "$template")),
                     TemplateString(Get(driverPairView, "id")))

\* lines 138-157: one pair view that names a $template
ExpandPairTemplate(c, driverId, composePairViews, driverPairView) ==
    IF \E k \in 1..Len(composePairViews) :
           composePairViews[k] = TemplateString(Get(driverPairView, "$template"))
    THEN CopyPairTemplate(c, driverId, TemplateString(Get(driverPairView, "$template")),
                          TemplateString(Get(driverPairView, "id")))
    ELSE Throw(c, Err("", "Invalid pair template"))

\* _.findWhere(list, { id: viewId }): the position of the first match, or 0
RECURSIVE FindWhereId(_, _, _)
FindWhereId(list, viewId, i) ==
    IF i > Len(list.kv) THEN 0
    ELSE IF Get(list.kv[i].v, "id") = Str(viewId) THEN i
    ELSE FindWhereId(list, viewId, i + 1)

\* lines 160-169: $pairOptions from entry i on
RECURSIVE SetPairOptions(_, _)
SetPairOptions(driverJson, i) ==
    LET pairOptions == Get(driverJson, "$pairOptions")
        pair == Get(driverJson, "pair")
    IN  IF ~Truthy(pairOptions) \/ i > Len(pairOptions.kv) THEN driverJson
        ELSE LET at == FindWhereId(pair, pairOptions.kv[i].k, 1)
             IN  SetPairOptions(
                     IF at = 0 THEN driverJson
                     ELSE Set(driverJson, "pair",
                              [pair EXCEPT !.kv[at].v = Set(@, "options", pairOptions.kv[i].v)]),
                     i + 1)

\* lines 136-157: the view at position j, expanded when it names a $template
ExpandPairView(c, driverId, composePairViews, driverPairView) ==
    IF Truthy(Get(driverPairView, "$template"))
    THEN ExpandPairTemplate(c, driverId, composePairViews, driverPairView)
    ELSE c

\* lines 159-169
MergePairOptions(c) ==
    IF c.err.thrown THEN c ELSE [c EXCEPT !.driverJson = SetPairOptions(@, 1)]

\* lines 135-170: the pair views from position j on
RECURSIVE MergePairViews(_, _, _, _)
MergePairViews(c, driverId, composePairViews, j) ==
    IF j > Len(Get(c.driverJson, "pair").kv) \/ c.err.thrown THEN c
    ELSE MergePairViews(
             MergePairOptions(ExpandPairView(c, driverId, composePairViews,
                                             Get(c.driverJson, "pair").kv[j].v)),
             driverId, composePairViews, j + 1)

\* lines 125-171
MergePair(c, driverId) ==
    IF c.err.thrown \/ ~ArrayIsArray(Get(c.driverJson, "pair")) THEN c
    ELSE MergePairViews(c, driverId,
                        SelectSeq(_getFiles(c.dirs, ComposePairPath),
                                  LAMBDA view : ~StartsWithDot(view)),
                        1)

\* the device argument with the default name whatever the card says
AddDeviceArgDefaultName(cards, card, driverId) ==
    Set(card, "args",
        Unshift(Or(Get(cards, "args"), Arr(<<>>)),
                Obj(<< KV("type", Str("device")),
                       KV("name", Str("device")),
                       KV("filter", Str("driver_id=" \o driverId)) >>)))

\* lines 185-190: the device argument put in front of the card's arguments
AddDeviceArg(cards, card, driverId) ==
    Set(card, "args",
        Unshift(Or(Get(cards, "args"), Arr(<<>>)),
                Obj(<< KV("type", Str("device")),
                       KV("name", Or(Get(card, "$deviceName"), Str("device"))),
                       KV("filter", Str("driver_id=" \o driverId)) >>)))

\* lines 182-196: the cards of one kind from position i on
RECURSIVE AddDriverCards(_, _, _, _, _)
AddDriverCards(c, driverId, type, cards, i) ==
    IF i > Len(cards.kv) THEN c
    ELSE AddDriverCards(
             _addFlowCard(c, type, AddDeviceArg(cards, cards.kv[i].v, driverId), Undef),
             driverId, type, cards, i + 1)

\* lines 177-197: the kinds from position i on
RECURSIVE AddDriverFlow(_, _, _, _)
AddDriverFlow(c, driverId, driverJsonFlow, i) ==
    IF i > Len(FLOW_TYPES) THEN c
    ELSE LET cards == Get(driverJsonFlow, FLOW_TYPES[i])
         IN  AddDriverFlow(
                 IF ~Truthy(cards) \/ ~ArrayIsArray(cards) THEN c
                 ELSE AddDriverCards(c, driverId, FLOW_TYPES[i], cards, 1),
                 driverId, driverJsonFlow, i + 1)

\* lines 173-200
MergeFlow(c, driverId) ==
    LET r == _getJsonFile(c.files, Join(DriverPath(driverId), "driver.flow.compose.json"))
    IN  IF c.err.thrown THEN c
        ELSE IF ~r.err.thrown THEN AddDriverFlow(c, driverId, r.val, 1)
        ELSE IF r.err.code # "ENOENT" THEN Throw(c, NewError(r.err))
        ELSE c

\* lines 202-203
PushDriver(c) ==
    IF c.err.thrown THEN c ELSE
    [c EXCEPT !.appJson = Set(@, "drivers",
                              Push(Or(Get(c.appJson, "drivers"), Arr(<<>>)), c.driverJson))]

\* lines 89-205: one entry of the drivers directory
ComposeDriver(c, driverId) ==
    IF StartsWithDot(driverId) THEN c
    ELSE PushDriver(
             MergeFlow(
                 MergePair(
                     MergeSettings(
                         MergeExtends(ReadDriver(c, driverId), driverId),
                         driverId),
                     driverId),
                 driverId))

RECURSIVE ComposeDriversFrom(_, _, _)
ComposeDriversFrom(c, drivers, i) ==
    IF i > Len(drivers) \/ c.err.thrown THEN c
    ELSE ComposeDriversFrom(ComposeDriver(c, drivers[i]), drivers, i + 1)

_composeDrivers(c) ==
    IF c.err.thrown THEN c ELSE
    ComposeDriversFrom([c EXCEPT !.appJson = Delete(@, "drivers")],
                       _getFiles(c.dirs, Join(AppPath, "drivers")), 1)

(***************************************************************************)
(* _composeCapabilities, _composeSignals, _composeScreensavers             *)
(***************************************************************************)
\* lines 297-305: the capability fragments from entry i on
RECURSIVE AddCapabilities(_, _, _)
AddCapabilities(appJson, capabilities, i) ==
    IF i > Len(capabilities.kv) THEN appJson
    ELSE LET capability == capabilities.kv[i].v
             capabilityId == Or(Get(capability, "$id"), Str(capabilities.kv[i].k))
         IN  AddCapabilities(
                 Set(appJson, "capabilities",
                     Set(Or(Get(appJson, "capabilities"), Obj(<<>>)), capabilityId.s, capability)),
                 capabilities, i + 1)

\* _composeCapabilities without `delete this._appJson.capabilities`
_composeCapabilitiesKeepingStale(c) ==
    LET capabilities == _getJsonFiles(c.files, c.dirs, Join(AppPathCompose, "capabilities"))
    IN  IF c.err.thrown THEN c
        ELSE IF capabilities.err.thrown THEN Throw(c, capabilities.err)
        ELSE [c EXCEPT !.appJson = AddCapabilities(@, capabilities.val, 1)]

\* lines 292-307
_composeCapabilities(c) ==
    LET capabilities == _getJsonFiles(c.files, c.dirs, Join(AppPathCompose, "capabilities"))
    IN  IF c.err.thrown THEN c
        ELSE IF capabilities.err.thrown THEN Throw(c, capabilities.err)
        ELSE [c EXCEPT !.appJson = AddCapabilities(Delete(@, "capabilities"), capabilities.val, 1)]

Frequencies == << "433", "868", "ir" >>

\* the signal fragments of one band stored under their file ids
RECURSIVE AddSignalsByFileId(_, _, _, _)
AddSignalsByFileId(appJson, frequency, signals, i) ==
    IF i > Len(signals.kv) THEN appJson
    ELSE LET all == Or(Get(appJson, "signals"), Obj(<<>>))
             band == Or(Get(all, frequency), Obj(<<>>))
         IN  AddSignalsByFileId(
                 Set(appJson, "signals",
                     Set(all, frequency, Set(band, signals.kv[i].k, signals.kv[i].v))),
                 frequency, signals, i + 1)

\* lines 222-232: the signal fragments of one band from entry i on
RECURSIVE AddSignals(_, _, _, _)
AddSignals(appJson, frequency, signals, i) ==
    IF i > Len(signals.kv) THEN appJson
    ELSE LET signal == signals.kv[i].v
             signalId == Or(Get(signal, "$id"), Str(BaseName(signals.kv[i].k, ".json")))
             all == Or(Get(appJson, "signals"), Obj(<<>>))
             band == Or(Get(all, frequency), Obj(<<>>))
         IN  AddSignals(Set(appJson, "signals", Set(all, frequency, Set(band, signalId.s, signal))),
                        frequency, signals, i + 1)

RECURSIVE ComposeSignalBands(_, _)
ComposeSignalBands(c, i) ==
    IF i > Len(Frequencies) \/ c.err.thrown THEN c
    ELSE LET signals == _getJsonFiles(c.files, c.dirs,
                                      Join(Join(AppPathCompose, "signals"), Frequencies[i]))
         IN  IF signals.err.thrown THEN Throw(c, signals.err)
             ELSE ComposeSignalBands(
                      [c EXCEPT !.appJson = AddSignals(@, Frequencies[i], signals.val, 1)],
                      i + 1)

_composeSignals(c) ==
    IF c.err.thrown THEN c ELSE
    ComposeSignalBands([c EXCEPT !.appJson = Delete(@, "signals")], 1)

\* lines 280-288: the screensaver fragments from entry i on
RECURSIVE AddScreensavers(_, _, _)
AddScreensavers(appJson, screensavers, i) ==
    IF i > Len(screensavers.kv) THEN appJson
    ELSE LET screensaver == screensavers.kv[i].v
             name == Or(Or(Get(screensaver, "$name"), Get(screensaver, "name")),
                        Str(screensavers.kv[i].k))
         IN  AddScreensavers(
                 Set(appJson, "screensavers",
                     Push(Or(Get(appJson, "screensavers"), Arr(<<>>)),
                          Set(screensaver, "name", name))),
                 screensavers, i + 1)

\* _composeScreensavers without `delete this._appJson.screensavers`
_composeScreensaversKeepingStale(c) ==
    LET screensavers == _getJsonFiles(c.files, c.dirs, Join(AppPathCompose, "screensavers"))
    IN  IF c.err.thrown THEN c
        ELSE IF screensavers.err.thrown THEN Throw(c, screensavers.err)
        ELSE [c EXCEPT !.appJson = AddScreensavers(@, screensavers.val, 1)]

\* lines 275-290
_composeScreensavers(c) ==
    LET screensavers == _getJsonFiles(c.files, c.dirs, Join(AppPathCompose, "screensavers"))
    IN  IF c.err.thrown THEN c
        ELSE IF screensavers.err.thrown THEN Throw(c, screensavers.err)
        ELSE [c EXCEPT !.appJson = AddScreensavers(Delete(@, "screensavers"), screensavers.val, 1)]

(***************************************************************************)
(* _composeLocales                                                         *)
(***************************************************************************)
AppLocalesPath == Join(AppPath, "locales")
AppComposeLocalesPath == Join(AppPathCompose, "locales")

\* the fragment set at its path, whatever the tree holds there
MergeLocaleReplacing(appLocale, appComposeLocaleIdArray, appComposeLocale) ==
    IF Len(appComposeLocaleIdArray) = 0
    THEN appComposeLocale
    ELSE objectPathSet(appLocale, appComposeLocaleIdArray, appComposeLocale)

\* lines 331-338: the tree of one language after one compose fragment whose
\* name, without the language, is the key path appComposeLocaleIdArray
MergeLocale(appLocale, appComposeLocaleIdArray, appComposeLocale) ==
    IF Len(appComposeLocaleIdArray) = 0
    THEN deepmerge(appLocale, appComposeLocale)
    ELSE objectPathSet(appLocale, appComposeLocaleIdArray,
                       deepmerge(objectPathGet(appLocale, appComposeLocaleIdArray),
                                 appComposeLocale))

\* lines 326-343: the compose fragments from entry i on; m carries
\* appLocales, appLocalesChanged and the steps made
RECURSIVE MergeLocales(_, _, _)
MergeLocales(m, appComposeLocales, i) ==
    IF i > Len(appComposeLocales.kv) THEN m
    ELSE LET idArray == SplitDots(BaseName(appComposeLocales.kv[i].k, ".json"))
             language == Head(idArray)
             before == Or(Get(m.appLocales, language), Obj(<<>>))
             after == MergeLocale(before, Tail(idArray), appComposeLocales.kv[i].v)
             included == \E k \in 1..Len(m.changed) : m.changed[k] = language
         IN  MergeLocales(
                 [appLocales |-> Set(m.appLocales, language, after),
                  changed |-> IF included THEN m.changed ELSE Append(m.changed, language),
                  steps |-> Append(m.steps, [language |-> language,
                                             path |-> Tail(idArray),
                                             fragment |-> appComposeLocales.kv[i].v,
                                             before |-> before,
                                             after |-> after])],
                 appComposeLocales, i + 1)

\* lines 345-350: the changed languages from position i on
RECURSIVE WriteLocales(_, _, _, _)
WriteLocales(c, appLocales, appLocalesChanged, i) ==
    IF i > Len(appLocalesChanged) \/ c.err.thrown THEN c
    ELSE WriteLocales(
             writeFileAsync(c, AppLocalesPath, appLocalesChanged[i] \o ".json",
                            JsonFile(JsonRoundTrip(Get(appLocales, appLocalesChanged[i])))),
             appLocales, appLocalesChanged, i + 1)

\* lines 326-350, with both directories as read
MergeAndWriteLocales(c, m) ==
    WriteLocales([c EXCEPT !.localeSteps = m.steps], m.appLocales, m.changed, 1)

ComposeLocalesOf(c, appLocales, appComposeLocales) ==
    IF appLocales.err.thrown THEN Throw(c, appLocales.err)
    ELSE IF appComposeLocales.err.thrown THEN Throw(c, appComposeLocales.err)
    ELSE MergeAndWriteLocales(
             c, MergeLocales([appLocales |-> appLocales.val, changed |-> <<>>, steps |-> <<>>],
                             appComposeLocales.val, 1))

_composeLocales(c) ==
    IF c.err.thrown THEN c
    ELSE ComposeLocalesOf(c, _getJsonFiles(c.files, c.dirs, AppLocalesPath),
                          _getJsonFiles(c.files, c.dirs, AppComposeLocalesPath))

(***************************************************************************)
(* _saveAppJson and run                                                    *)
(***************************************************************************)
_saveAppJson(c) ==
    IF c.err.thrown THEN c ELSE
    writeFileAsync(c, AppPath, AppJsonName,
                   JsonFile(removeDollarPropertiesRecursive(JsonRoundTrip(c.appJson))))

\* the plugin instance when run() is entered
NewContext(fs, ds) ==
    [appJson |-> Undef, driverJson |-> Undef, files |-> fs, dirs |-> ds, err |-> NoErr,
     resolved |-> <<>>, localeSteps |-> <<>>, writes |-> <<>>]

\* run(), lines 49-78
run(c0) ==
    _saveAppJson(
        _composeLocales(
            _composeScreensavers(
                _composeSignals(
                    _composeCapabilities(
                        _composeDrivers(
                            _composeFlow(
                                LoadAppJson(c0))))))))

(***************************************************************************)
(* App directories.  A part is a piece of a directory tree, [files, dirs]; *)
(* a scenario is the union of one part per place the plugin reads (the     *)
(* layout of the header comment, lines 9-20).                              *)
(***************************************************************************)
NoFiles == [q \in {} |-> Malformed]
NoDirs == [q \in {} |-> Dir(<<>>)]
Part(fs, ds) == [files |-> fs, dirs |-> ds]
Plus(a, b) == Part(a.files @@ b.files, a.dirs @@ b.dirs)
Nothing == Part(NoFiles, NoDirs)

O1(k1, v1) == Obj(<< KV(k1, v1) >>)
O2(k1, v1, k2, v2) == Obj(<< KV(k1, v1), KV(k2, v2) >>)
O3(k1, v1, k2, v2, k3, v3) == Obj(<< KV(k1, v1), KV(k2, v2), KV(k3, v3) >>)

\* ---- /app/app.json
BaseMinimal == O2("id", Str("com.acme.app"), "version", Str("1.0.0"))

BaseStale ==
    Obj(<< KV("flow", O1("triggers", Arr(<< O1("id", Str("stale_card")) >>))),
           KV("id", Str("com.acme.app")),
           KV("$schema", Str("https://acme/schema")),
           KV("drivers", Arr(<< O1("id", Str("stale_driver")) >>)),
           KV("version", Str("1.0.0")),
           KV("images", O2("large", Str("large.png"), "$draft", Str("draft.png"))),
           KV("contributors", Arr(<< O2("name", Str("Ann"), "$email", Str("ann@acme")),
                                     Arr(<< O1("$deep", Null) >>) >>)),
           KV("capabilities", O1("stale_cap", O1("type", Str("string")))),
           KV("signals", O1("433", O1("stale_signal", Obj(<<>>)))),
           KV("screensavers", Arr(<< O1("name", Str("stale_saver")) >>)) >>)

BaseDocs == { BaseMinimal, BaseStale }

\* ---- /app/.homeycompose/app.json
OverlayVersion == O2("version", Str("2.0.0"), "category", Str("tools"))

OverlayDollar ==
    Obj(<< KV("$comment", Str("edit the fragments")),
           KV("category", Str("lights")),
           KV("id", Str("com.acme.other")),
           KV("permissions", Arr(<< O2("$why", Str("api"), "name", Str("homey:manager:api")) >>)),
           KV("images", O1("small", Str("small.png"))) >>)

OverlayDocs == { OverlayVersion, OverlayDollar }

BasePart(file) == Part(Join(AppPath, AppJsonName) :> file, AppPath :> Dir(<< AppJsonName >>))
NoBasePart == Part(NoFiles, AppPath :> Dir(<<>>))
OverlayPart(file) ==
    Part(Join(AppPathCompose, AppJsonName) :> file, AppPathCompose :> Dir(<< AppJsonName >>))

\* ---- /app/.homeycompose/flow/<type>/<id>.json
FlowPath(type) == Join(Join(AppPathCompose, "flow"), type)

CardTurnedOn ==
    O2("title", O1("en", Str("Turned on")),
       "args", Arr(<< O3("name", Str("mode"), "type", Str("dropdown"), "$hint", Str("h")) >>))
CardExplicit == O3("$id", Str("explicit"), "id", Str("own"), "title", O1("en", Str("Custom")))
CardOwnId == O1("id", Str("own_id"))

FlowStd ==
    Part((Join(FlowPath("triggers"), "turned_on.json") :> JsonFile(CardTurnedOn))
         @@ (Join(FlowPath("triggers"), "custom.json") :> JsonFile(CardExplicit))
         @@ (Join(FlowPath("triggers"), "README.md") :> TextFile("cards"))
         @@ (Join(FlowPath("actions"), "turn_on.json") :> JsonFile(CardOwnId)),
         (FlowPath("triggers") :> Dir(<< "README.md", "custom.json", "turned_on.json" >>))
         @@ (FlowPath("actions") :> Dir(<< "turn_on.json" >>)))

\* two fragments that yield the same card id
FlowSameId ==
    Part((Join(FlowPath("triggers"), "own_id.json") :> JsonFile(O1("title", Str("by file name"))))
         @@ (Join(FlowPath("triggers"), "other.json") :> JsonFile(CardOwnId)),
         FlowPath("triggers") :> Dir(<< "other.json", "own_id.json" >>))

FlowParts == { Nothing, FlowStd, FlowSameId }

\* ---- /app/.homeycompose/drivers/templates/<template_id>.json
TemplateBasic ==
    Obj(<< KV("class", Str("socket")),
           KV("capabilities", Arr(<< Str("onoff") >>)),
           KV("$templateNote", Str("from basic")),
           KV("images", O2("large", Str("basic-large.png"), "small", Str("basic-small.png"))) >>)

TemplatesStd ==
    Part(Join(TemplatesPath, "basic.json") :> JsonFile(TemplateBasic),
         TemplatesPath :> Dir(<< "basic.json" >>))

\* ---- /app/.homeycompose/drivers/pair/<template_id>/index.html (+ assets)
PairStd ==
    Part((Join(Join(ComposePairPath, "rf_start"), "index.html")
              :> TextFile("<img src={{assets}}/a.png><a href={{assets}}>"))
         @@ (Join(Join(Join(ComposePairPath, "rf_start"), "assets"), "a.png") :> TextFile("png")),
         (ComposePairPath :> Dir(<< ".hidden", "rf_start" >>))
         @@ (Join(ComposePairPath, "rf_start") :> Dir(<< "assets", "index.html" >>))
         @@ (Join(Join(ComposePairPath, "rf_start"), "assets") :> Dir(<< "a.png" >>)))

\* ---- /app/drivers/<id>/driver[.settings|.flow].compose.json
DriverLamp ==
    Obj(<< KV("name", O1("en", Str("Lamp"))),
           KV("class", Str("light")),
           KV("$extends", Str("basic")),
           KV("pair", Arr(<< O2("id", Str("start"), "$template", Str("rf_start")),
                             O1("id", Str("done")) >>)),
           KV("$pairOptions", O1("done", O1("title", Str("Done")))) >>)

DriverLampSettings == Arr(<< O3("id", Str("interval"), "type", Str("number"), "$tip", Str("t")) >>)

DriverLampFlow ==
    O2("triggers",
       Arr(<< O2("id", Str("lamp_on"),
                 "args", Arr(<< O2("name", Str("level"), "type", Str("number")) >>)),
              O2("id", Str("lamp_off"), "$deviceName", Str("my_lamp")) >>),
       "actions",
       Arr(<< O2("$id", Str("lamp_toggle"), "$deviceName", Str("")) >>))

DriverPlug == O2("name", O1("en", Str("Plug")), "id", Str("not_the_directory"))

DriverDir(driverId, compose, settings, flow) ==
    Part((Join(DriverPath(driverId), "driver.compose.json") :> compose)
         @@ (IF settings.kind = "none" THEN NoFiles
             ELSE Join(DriverPath(driverId), "driver.settings.compose.json") :> settings)
         @@ (IF flow.kind = "none" THEN NoFiles
             ELSE Join(DriverPath(driverId), "driver.flow.compose.json") :> flow),
         DriverPath(driverId) :> Dir(<< "driver.compose.json" >>
                                     \o (IF flow.kind = "none" THEN <<>>
                                         ELSE << "driver.flow.compose.json" >>)
                                     \o (IF settings.kind = "none" THEN <<>>
                                         ELSE << "driver.settings.compose.json" >>)))
NoFile == File("none", Undef)

DriversList(names) == Part(NoFiles, Join(AppPath, "drivers") :> Dir(names))

DriversStd ==
    Plus(DriversList(<< ".DS_Store", "lamp", "plug" >>),
         Plus(DriverDir("lamp", JsonFile(DriverLamp), JsonFile(DriverLampSettings),
                        JsonFile(DriverLampFlow)),
              DriverDir("plug", JsonFile(DriverPlug), NoFile, NoFile)))

\* ---- /app/.homeycompose/capabilities, signals/<433|868|ir>, screensavers
CapabilitiesPath == Join(AppPathCompose, "capabilities")
SignalsPath(frequency) == Join(Join(AppPathCompose, "signals"), frequency)
ScreensaversPath == Join(AppPathCompose, "screensavers")

SectionsStd ==
    Part((Join(CapabilitiesPath, "brightness.json")
              :> JsonFile(O3("type", Str("number"), "$id", Str("dim_level"),
                             "values", Arr(<< O2("id", Str("low"), "$weight", Str("1")) >>))))
         @@ (Join(CapabilitiesPath, "my_cap.json") :> JsonFile(O1("type", Str("boolean"))))
         @@ (Join(CapabilitiesPath, "notes.txt") :> TextFile("notes"))
         @@ (Join(SignalsPath("433"), "remote.json")
              :> JsonFile(O3("sof", Arr(<<>>), "$id", Str("my_remote"),
                             "cmds", O2("on", Str("1"), "$dbg", Str("2")))))
         @@ (Join(SignalsPath("ir"), "tv.json") :> JsonFile(O1("carrier", Str("38000"))))
         @@ (Join(ScreensaversPath, "rainbow.json")
              :> JsonFile(O2("title", O1("en", Str("Rainbow")), "$name", Str("rainbow_override"))))
         @@ (Join(ScreensaversPath, "plain.json") :> JsonFile(O1("title", O1("en", Str("Plain"))))),
         (CapabilitiesPath :> Dir(<< "brightness.json", "my_cap.json", "notes.txt" >>))
         @@ (SignalsPath("433") :> Dir(<< "remote.json" >>))
         @@ (SignalsPath("ir") :> Dir(<< "tv.json" >>))
         @@ (ScreensaversPath :> Dir(<< "plain.json", "rainbow.json" >>)))

\* ---- /app/locales/<lang>.json and /app/.homeycompose/locales/<lang>[.<path>].json
LocaleFile(dirPath, name, doc) == Part(Join(dirPath, name) :> JsonFile(doc), NoDirs)
LocaleDir(dirPath, names) == Part(NoFiles, dirPath :> Dir(names))

LocalesStd ==
    Plus(Plus(LocaleDir(AppLocalesPath, << "en.json" >>),
              LocaleFile(AppLocalesPath, "en.json",
                         O2("a", Str("1"), "foo", O1("b", Str("2"))))),
         Plus(LocaleDir(AppComposeLocalesPath, << "en.foo.json", "en.json", "nl.json" >>),
              Plus(LocaleFile(AppComposeLocalesPath, "en.foo.json", O1("c", Str("3"))),
                   Plus(LocaleFile(AppComposeLocalesPath, "en.json", O1("a", Str("one"))),
                        LocaleFile(AppComposeLocalesPath, "nl.json", O1("a", Str("een")))))))

\* the whole standard app but its manifest files
StdFragments ==
    Plus(FlowStd, Plus(TemplatesStd, Plus(PairStd, Plus(DriversStd, Plus(SectionsStd, LocalesStd)))))

\* ---- one driver over two templates: the descriptor defines any of three
\* fields and extends nothing, one template, two in either order, or a
\* template that has no file
TemplateT1 ==
    O3("id", Str("t1_id"), "class", Str("socket"),
       "images", O2("large", Str("t1-large.png"), "small", Str("t1-small.png")))
TemplateT2 == O2("class", Str("light"), "capabilities", Arr(<< Str("onoff") >>))

TemplatesT ==
    Part((Join(TemplatesPath, "t1.json") :> JsonFile(TemplateT1))
         @@ (Join(TemplatesPath, "t2.json") :> JsonFile(TemplateT2)),
         TemplatesPath :> Dir(<< "t1.json", "t2.json" >>))

OwnFields ==
    << KV("class", Str("sensor")),
       KV("images", O1("large", Str("own-large.png"))),
       KV("capabilities", Arr(<< Str("dim") >>)) >>

ExtendsValues ==
    { Str("t1"), Str("missing"), Arr(<<>>),
      Arr(<< Str("t1"), Str("t2") >>), Arr(<< Str("t2"), Str("t1") >>),
      Arr(<< Str("t1"), Str("missing") >>), Arr(<< Str("missing"), Str("t2") >>) }

ExtendsDocs ==
    { Obj(<< KV("name", O1("en", Str("Lamp"))) >>
          \o SelectSeq(OwnFields, LAMBDA e : e.k \in own) \o ext) :
        own \in SUBSET { "class", "images", "capabilities" },
        ext \in { <<>> } \cup { << KV("$extends", v) >> : v \in ExtendsValues } }

\* ---- the cards of a driver.flow.compose.json: with and without arguments
\* of their own, with and without $deviceName
ArgLevel == O2("name", Str("level"), "type", Str("number"))
ArgMode == O2("name", Str("mode"), "type", Str("dropdown"))

DriverCardDocs ==
    { O1("id", Str("c_plain")),
      O2("id", Str("c_args"), "args", Arr(<< ArgLevel >>)),
      O2("id", Str("c_named"), "$deviceName", Str("my_device")),
      O3("id", Str("c_both"), "$deviceName", Str("other"), "args", Arr(<< ArgMode, ArgLevel >>)),
      O2("$id", Str("c_empty"), "$deviceName", Str("")) }

DriverCardLists ==
    { << a >> : a \in DriverCardDocs }
    \cup { pair \in DriverCardDocs \X DriverCardDocs : pair[1] # pair[2] }

\* the driver directory, its descriptor and the kind of card it declares
DriverFlowKinds ==
    { << "lamp", O1("name", O1("en", Str("Lamp"))), "triggers" >>,
      << "lamp", O1("name", O1("en", Str("Lamp"))), "conditions" >>,
      << "plug", DriverPlug, "actions" >> }

\* ---- a locale tree of en (none, shallow, deep) under one or two compose
\* fragments, named for a language and a key path
TreeFlat == O2("a", Str("1"), "foo", O1("b", Str("2")))
TreeDeep ==
    O3("a", Str("1"),
       "foo", O2("b", Str("2"), "bar", O1("x", Str("1"))),
       "tags", Arr(<< Str("x") >>))

LocaleTrees ==
    { Plus(LocaleDir(AppLocalesPath, << "en.json" >>),
           LocaleFile(AppLocalesPath, "en.json", tree)) : tree \in { TreeFlat, TreeDeep } }

Fragment(name, doc) == [name |-> name, doc |-> doc]

\* fragments whose values are strings or arrays
FlatFragments ==
    { Fragment("en.foo.json", O1("c", Str("3"))),
      Fragment("en.foo.bar.json", O1("y", Str("2"))),
      Fragment("en.json", O1("tags", Arr(<< Str("y") >>))),
      Fragment("nl.json", O1("a", Str("een"))) }

\* fragments that hold a mapping: for the language root, for a path
RootFragment == Fragment("en.json", O2("a", Str("one"), "foo", O1("c", Str("3"))))
PathFragment == Fragment("en.foo.json", O2("b", Str("two"), "bar", O1("y", Str("2"))))

\* the listings of one fragment or of two with different names
FragmentLists(fragments) ==
    { << a >> : a \in fragments }
    \cup { pair \in fragments \X fragments : pair[1].name # pair[2].name }

FragmentsPart(list) ==
    Part([q \in { Join(AppComposeLocalesPath, list[k].name) : k \in 1..Len(list) } |->
             JsonFile(list[CHOOSE k \in 1..Len(list) :
                               Join(AppComposeLocalesPath, list[k].name) = q].doc)],
         AppComposeLocalesPath :> Dir([k \in 1..Len(list) |-> list[k].name]))

\* ---- global trigger fragments and the trigger cards of drivers, for the
\* ids and the order of flow cards: a listing that is not alphabetical,
\* file names that are integers, ids that are empty or shared
FragmentsAt(dirPath, list) ==
    Part([q \in { Join(dirPath, list[k].name) : k \in 1..Len(list) } |->
             JsonFile(list[CHOOSE k \in 1..Len(list) : Join(dirPath, list[k].name) = q].doc)],
         dirPath :> Dir([k \in 1..Len(list) |-> list[k].name]))

Titled(title) == O1("title", O1("en", Str(title)))

GlobalTriggerLists ==
    { << Fragment("b.json", Titled("B")),
         Fragment("a.json", O2("id", Str("own_a"), "title", O1("en", Str("A")))) >>,
      << Fragment("10.json", Titled("Ten")), Fragment("9.json", Titled("Nine")) >>,
      << Fragment("x.json", O3("$id", Str(""), "id", Str("c_plain"), "title", O1("en", Str("X")))),
         Fragment("y.json", O2("$id", Str("c_plain"), "title", O1("en", Str("Y")))),
         Fragment("z.json", O3("$id", Str("first"), "id", Str("second"),
                               "title", O1("en", Str("Z")))) >> }

GlobalTriggerParts ==
    { Nothing } \cup { FragmentsAt(FlowPath("triggers"), list) : list \in GlobalTriggerLists }

DriverTriggers(driverId, cards) ==
    DriverDir(driverId, JsonFile(Titled(driverId)), NoFile, JsonFile(O1("triggers", Arr(cards))))

DriverTriggerParts ==
    { Nothing,
      Plus(DriversList(<< "lamp" >>),
           DriverTriggers("lamp", << O2("id", Str("c_plain"), "title", O1("en", Str("L1"))) >>)),
      Plus(DriversList(<< "plug", ".git", "lamp" >>),
           Plus(DriverTriggers("plug", << O2("id", Str("c_plain"), "title", O1("en", Str("P1"))),
                                          Titled("P2") >>),
                DriverTriggers("lamp", << O3("$id", Str("c_named"), "id", Str("c_other"),
                                             "title", O1("en", Str("L1"))),
                                          O2("id", Str("c_plain"), "title", O1("en", Str("L2"))) >>))) }

\* ---- capability fragments and signal fragments per band: no directory,
\* an empty one, fragments with and without $id
CapabilityParts ==
    { Nothing,
      FragmentsAt(CapabilitiesPath,
                  << Fragment("my_cap.json", O1("type", Str("boolean"))),
                     Fragment("brightness.json",
                              O3("type", Str("number"), "$id", Str("dim_level"),
                                 "$note", Str("n"))) >>) }

SignalParts433 ==
    { Nothing,
      FragmentsAt(SignalsPath("433"), << Fragment("a.json", O1("sof", Arr(<<>>))) >>),
      FragmentsAt(SignalsPath("433"),
                  << Fragment("remote.json", O2("$id", Str("my_remote"), "sof", Arr(<<>>))),
                     Fragment("7.json", O1("eof", Arr(<<>>))) >>) }

SignalParts868 ==
    { Part(NoFiles, SignalsPath("868") :> Dir(<< "README.md" >>)),
      FragmentsAt(SignalsPath("868"), << Fragment("b.json", O1("$id", Str("b_override"))) >>) }

SignalPartsIr ==
    { Nothing,
      FragmentsAt(SignalsPath("ir"), << Fragment("c.json", O1("carrier", Str("38000"))) >>) }

\* ---- pair lists that name pairing templates: rf_start, which exists,
\* nope, which does not, and .hidden, a dot entry that holds markup
PairHidden ==
    Part(Join(Join(ComposePairPath, ".hidden"), "index.html") :> TextFile("<p>hidden</p>"),
         Join(ComposePairPath, ".hidden") :> Dir(<< "index.html" >>))

PairView(id, template) == O2("id", Str(id), "$template", Str(template))

PairLists ==
    { << PairView("start", "rf_start") >>,
      << PairView("bad", "nope") >>,
      << PairView("bad", ".hidden") >>,
      << PairView("start", "rf_start"), PairView("bad", "nope"), PairView("later", "rf_start") >>,
      << O1("id", Str("plain")), PairView("bad", ".hidden"), PairView("worse", "nope") >> }

(***************************************************************************)
(* Scenarios                                                               *)
(***************************************************************************)
\* the number of compose runs made on one directory
MaxRuns == 2

\* the manifest files over the standard fragments
ManifestScenarios ==
    { Plus(BasePart(JsonFile(b)), Plus(o, Plus(f, Plus(TemplatesStd, Plus(PairStd,
           Plus(DriversStd, Plus(SectionsStd, LocalesStd))))))) :
        b \in BaseDocs,
        o \in { Nothing } \cup { OverlayPart(JsonFile(d)) : d \in OverlayDocs },
        f \in FlowParts }

StdApp == Plus(BasePart(JsonFile(BaseStale)), Plus(OverlayPart(JsonFile(OverlayDollar)), StdFragments))

\* the standard app with one of its JSON files malformed
MalformedScenarios ==
    { Part([StdApp.files EXCEPT ![q] = Malformed], StdApp.dirs) :
        q \in { r \in DOMAIN StdApp.files : StdApp.files[r].kind = "json" } }

\* a minimal app with one driver that extends templates
ExtendsScenarios ==
    { Plus(BasePart(JsonFile(BaseMinimal)),
           Plus(TemplatesT,
                Plus(DriversList(<< "lamp" >>),
                     DriverDir("lamp", JsonFile(doc), NoFile, NoFile)))) :
        doc \in ExtendsDocs }

\* a minimal app with one driver that declares flow cards
DriverFlowScenarios ==
    { Plus(BasePart(JsonFile(BaseMinimal)),
           Plus(DriversList(<< kind[1] >>),
                DriverDir(kind[1], JsonFile(kind[2]), NoFile,
                          JsonFile(O1(kind[3], Arr(cards)))))) :
        kind \in DriverFlowKinds, cards \in DriverCardLists }

\* a minimal app with a locale tree of en, or none, and compose fragments;
\* without a tree, no fragment holds a mapping for a path
LocalesScenarios ==
    { Plus(BasePart(JsonFile(BaseMinimal)), Plus(tree, FragmentsPart(list))) :
        tree \in LocaleTrees,
        list \in FragmentLists(FlatFragments \cup { RootFragment, PathFragment }) }
    \cup { Plus(BasePart(JsonFile(BaseMinimal)),
                Plus(LocaleDir(AppLocalesPath, <<>>), FragmentsPart(list))) :
             list \in FragmentLists(FlatFragments \cup { RootFragment }) }

\* a minimal app with global trigger fragments and drivers that declare
\* triggers
FlowOrderScenarios ==
    { Plus(BasePart(JsonFile(BaseMinimal)), Plus(global, drivers)) :
        global \in GlobalTriggerParts, drivers \in DriverTriggerParts }

\* an app whose base manifest has stale sections, with capability and
\* signal fragments
KeyedScenarios ==
    { Plus(BasePart(JsonFile(BaseStale)), Plus(caps, Plus(s433, Plus(s868, sIr)))) :
        caps \in CapabilityParts, s433 \in SignalParts433,
        s868 \in SignalParts868, sIr \in SignalPartsIr }

\* the directories a compose run lists and that an app need not have
OptionalDirs ==
    { CapabilitiesPath, ScreensaversPath, TemplatesPath, AppComposeLocalesPath,
      Join(AppPath, "drivers") }
    \cup { FlowPath(FLOW_TYPES[t]) : t \in 1..Len(FLOW_TYPES) }
    \cup { SignalsPath(Frequencies[b]) : b \in 1..Len(Frequencies) }

\* a directory tree without the directory dirPath and all it holds
Without(part, dirPath) ==
    Part([q \in { r \in DOMAIN part.files : ~StartsWith(r, dirPath \o "/") } |-> part.files[q]],
         [q \in { r \in DOMAIN part.dirs : r # dirPath /\ ~StartsWith(r, dirPath \o "/") } |->
             part.dirs[q]])

\* the standard app without one of the optional directories, and an app
\* that is a manifest with stale sections and nothing else
MissingDirScenarios ==
    { Without(StdApp, dirPath) : dirPath \in OptionalDirs }
    \cup { BasePart(JsonFile(BaseStale)) }

\* an app directory without app.json, with and without the overlay
NoBaseScenarios ==
    { Plus(NoBasePart, overlay) :
        overlay \in { Nothing, OverlayPart(JsonFile(OverlayVersion)) } }

\* a locale tree of en under fragments that hold what the tree holds
SameLocaleScenarios ==
    { Plus(BasePart(JsonFile(BaseMinimal)),
           Plus(Plus(LocaleDir(AppLocalesPath, << "en.json" >>),
                     LocaleFile(AppLocalesPath, "en.json", TreeFlat)),
                FragmentsPart(list))) :
        list \in FragmentLists({ Fragment("en.foo.json", O1("b", Str("2"))),
                                 Fragment("en.json", O1("a", Str("1"))),
                                 Fragment("nl.json", O1("a", Str("een"))) }) }

\* a minimal app with drivers plug and lamp, lamp with a pair list, with
\* and without the directory of pairing templates
PairScenarios ==
    { Plus(BasePart(JsonFile(BaseMinimal)),
           Plus(templates,
                Plus(DriversList(<< "plug", "lamp" >>),
                     Plus(DriverDir("plug", JsonFile(DriverPlug), NoFile, NoFile),
                          DriverDir("lamp", JsonFile(O2("name", O1("en", Str("Lamp")),
                                                        "pair", Arr(views))),
                                    NoFile, NoFile))))) :
        templates \in { Nothing, Plus(PairStd, PairHidden) }, views \in PairLists }

\* the fragment directories every run lists and never writes to
FragmentDirs == OptionalDirs \ { TemplatesPath }

\* the standard app with one fragment directory that cannot be listed
\* (permission denied), with a regular file where a fragment directory is
\* expected, and with one JSON file that cannot be read
UnreadableScenarios ==
    { Part(StdApp.files, [StdApp.dirs EXCEPT ![dirPath].st = "eacces"]) :
        dirPath \in FragmentDirs \cap DOMAIN StdApp.dirs }
    \cup { Plus(Without(StdApp, dirPath), Part(dirPath :> TextFile("x"), NoDirs)) :
             dirPath \in { CapabilitiesPath, FlowPath("triggers") } }
    \cup { Part([StdApp.files EXCEPT ![q] = File("eacces", Undef)], StdApp.dirs) :
             q \in { r \in DOMAIN StdApp.files : StdApp.files[r].kind = "json" } }

Scenarios ==
    ManifestScenarios \cup MalformedScenarios \cup ExtendsScenarios \cup DriverFlowScenarios
        \cup LocalesScenarios \cup FlowOrderScenarios \cup KeyedScenarios
        \cup MissingDirScenarios \cup NoBaseScenarios \cup SameLocaleScenarios
        \cup PairScenarios \cup UnreadableScenarios

\* no method called, no session
NoApp == [_exiting |-> FALSE]
NoIo == [ctrlC |-> "none"]

Init ==
    \E s \in Scenarios :
        /\ files = s.files
        /\ dirs = s.dirs
        /\ runs = <<>>
        /\ pc = "idle"
        /\ ctx = NewContext(NoFiles, NoDirs)
        /\ calls = <<>>
        /\ app = NoApp
        /\ io = NoIo

\* one call of AppPluginCompose.run(): the directory before and after it,
\* the error it ended with, and what it assembled
Run ==
    /\ Len(runs) < MaxRuns
    /\ LET c == run(NewContext(files, dirs))
       IN  /\ files' = c.files
           /\ dirs' = c.dirs
           /\ runs' = Append(runs, [before |-> Part(files, dirs),
                                    after |-> Part(c.files, c.dirs),
                                    err |-> c.err,
                                    appJson |-> c.appJson,
                                    resolved |-> c.resolved,
                                    localeSteps |-> c.localeSteps,
                                    writes |-> c.writes])
           /\ UNCHANGED << pc, ctx, calls, app, io >>

Next == Run

Spec == Init /\ [][Next]_vars

(***************************************************************************)
(* run() step by step.  Each statement of lines 55-76 is awaited, so a     *)
(* step is one action: it starts from the plugin instance the step before  *)
(* it left and its writes are on disk when it returns.  The last record of *)
(* runs follows the run in progress.                                       *)
(***************************************************************************)
\* run() with _composeDrivers called before _composeFlow
StepAfterDriversFirst(step) ==
    CASE step = "load" -> "drivers"
      [] step = "drivers" -> "flow"
      [] step = "flow" -> "capabilities"
      [] step = "capabilities" -> "signals"
      [] step = "signals" -> "screensavers"
      [] step = "screensavers" -> "locales"
      [] step = "locales" -> "save"
      [] step = "save" -> "return"

\* lines 55-76: the statement that follows a statement of run()
StepAfter(step) ==
    CASE step = "load" -> "flow"
      [] step = "flow" -> "drivers"
      [] step = "drivers" -> "capabilities"
      [] step = "capabilities" -> "signals"
      [] step = "signals" -> "screensavers"
      [] step = "screensavers" -> "locales"
      [] step = "locales" -> "save"
      [] step = "save" -> "return"

RunRecord(before, c) ==
    [before |-> before, after |-> Part(c.files, c.dirs), err |-> c.err,
     appJson |-> c.appJson, resolved |-> c.resolved,
     localeSteps |-> c.localeSteps, writes |-> c.writes]

\* run() is called
Begin ==
    /\ pc = "idle"
    /\ Len(runs) < MaxRuns
    /\ pc' = "load"
    /\ ctx' = NewContext(files, dirs)
    /\ runs' = Append(runs, RunRecord(Part(files, dirs), NewContext(files, dirs)))
    /\ UNCHANGED << files, dirs, calls, app, io >>

\* a step has returned or thrown: c is the plugin instance it leaves
Advance(c) ==
    /\ ctx' = c
    /\ files' = c.files
    /\ dirs' = c.dirs
    /\ runs' = [runs EXCEPT ![Len(runs)] = RunRecord(@.before, c)]
    /\ pc' = IF c.err.thrown THEN "return" ELSE StepAfter(pc)
    /\ UNCHANGED << calls, app, io >>

StepLoad == pc = "load" /\ Advance(LoadAppJson(ctx))
StepFlow == pc = "flow" /\ Advance(_composeFlow(ctx))
StepDrivers == pc = "drivers" /\ Advance(_composeDrivers(ctx))
StepCapabilities == pc = "capabilities" /\ Advance(_composeCapabilities(ctx))
StepSignals == pc = "signals" /\ Advance(_composeSignals(ctx))
StepScreensavers == pc = "screensavers" /\ Advance(_composeScreensavers(ctx))
StepLocales == pc = "locales" /\ Advance(_composeLocales(ctx))
StepSave == pc = "save" /\ Advance(_saveAppJson(ctx))

\* run() resolves or rejects
Return ==
    /\ pc = "return"
    /\ pc' = "idle"
    /\ UNCHANGED << files, dirs, runs, ctx, calls, app, io >>

NextSteps ==
    \/ Begin
    \/ StepLoad
    \/ StepFlow
    \/ StepDrivers
    \/ StepCapabilities
    \/ StepSignals
    \/ StepScreensavers
    \/ StepLocales
    \/ StepSave
    \/ Return

SpecSteps == Init /\ [][NextSteps]_vars

(***************************************************************************)
(* App (lib/App/index.js) and GitCommands (lib/Modules/GitCommands.js).    *)
(* A method works on w: the app directory (files, dirs, writes), the error *)
(* it throws (err), the value it returns (ret) and, in order, what it has  *)
(* done outside (log): a plugin's run() called, a plugin finished, the     *)
(* validation with its result, a pack, an upload.  What the outside does   *)
(* is env: whether homey-lib validates the app, whether the zwave plugin   *)
(* (its source is not in the repository) finishes, whether the active      *)
(* Homey is found, the archive packed and the upload accepted.             *)
(***************************************************************************)
PluginsPath == Join(AppPath, ".homeyplugins.json")
\* lines 33-38
PLUGINS == { "compose", "zwave", "zigbee", "rf" }

NewWorld(fs, ds) ==
    [files |-> fs, dirs |-> ds, writes |-> <<>>, err |-> NoErr, ret |-> "undefined",
     log |-> <<>>]
Logged(w, event, id) == [w EXCEPT !.log = Append(@, [ev |-> event, id |-> id])]

\* lines 195-204
_getPlugins(fs) ==
    LET r == readFileAsync(fs, PluginsPath)
    IN  IF r.err.thrown
        THEN IF r.err.code = "ENOENT" THEN Ok(Arr(<<>>))
             ELSE Fail(Err("", "Error in .homeyplugins.json"))
        ELSE IF r.val.kind # "json" THEN Fail(Err("", "Error in .homeyplugins.json"))
        ELSE Ok(r.val.doc)

\* plugins.length of what JSON.parse gave: a number for an array only
PluginList(plugins) == IF ArrayIsArray(plugins) THEN Items(plugins) ELSE <<>>

\* lines 186-193
_hasPlugin(fs, pluginId) ==
    LET plugins == _getPlugins(fs)
    IN  IF plugins.err.thrown THEN plugins
        ELSE Ok(\E i \in 1..Len(PluginList(plugins.val)) :
                    Get(PluginList(plugins.val)[i], "id") = Str(pluginId))

\* lines 215-217
_savePlugins(w, plugins) ==
    writeFileAsync(w, AppPath, ".homeyplugins.json", JsonFile(JsonRoundTrip(plugins)))

\* lines 208-212: the entry pushed is { id: 'zwave' } whatever pluginId is
PushPlugin(w, plugins, pluginId) ==
    IF plugins.err.thrown THEN Throw(w, plugins.err)
    ELSE IF ~ArrayIsArray(plugins.val) THEN Throw(w, Err("", "plugins.push is not a function"))
    ELSE _savePlugins(w, Push(plugins.val, O1("id", Str("zwave"))))

\* lines 206-213
addPlugin(w, pluginId) ==
    IF _hasPlugin(w.files, pluginId).err.thrown THEN Throw(w, _hasPlugin(w.files, pluginId).err)
    ELSE IF _hasPlugin(w.files, pluginId).val THEN w
    ELSE PushPlugin(w, _getPlugins(w.files), pluginId)

\* the plugin's run(): compose is AppPluginCompose.run on the directory;
\* rf stops at `app.installNpmPackage`, app being no variable of run()
\* (lib/AppPluginRF/index.js line 24), zigbee at `this.installNpmPackage`,
\* which AppPlugin does not have (lib/AppPluginZigbee/index.js line 21)
PluginRun(w, env, pluginId) ==
    CASE pluginId = "compose" ->
             LET c == run(NewContext(w.files, w.dirs))
             IN  [w EXCEPT !.files = c.files, !.dirs = c.dirs,
                           !.writes = @ \o c.writes, !.err = c.err]
      [] pluginId = "rf" -> Throw(w, Err("", "app is not defined"))
      [] pluginId = "zigbee" -> Throw(w, Err("", "this.installNpmPackage is not a function"))
      [] pluginId = "zwave" -> IF env.zwave THEN w ELSE Throw(w, Err("", "zwave failed"))

\* lines 176-181: an error of run() is thrown again under another message
Finished(w, pluginId) ==
    IF w.err.thrown THEN Throw(w, Err("", "Plugin did not finish"))
    ELSE Logged(w, "finished", pluginId)

\* an entry of the plugin list whose id is not in the table is passed over
RunPluginSkippingUnknown(w, env, plugin) ==
    IF Get(plugin, "id").t # "str" \/ Get(plugin, "id").s \notin PLUGINS
    THEN w
    ELSE Finished(PluginRun(Logged(w, "plugin", Get(plugin, "id").s), env,
                            Get(plugin, "id").s),
                  Get(plugin, "id").s)

\* lines 167-181: one entry of the plugin list
RunPlugin(w, env, plugin) ==
    IF Get(plugin, "id").t # "str" \/ Get(plugin, "id").s \notin PLUGINS
    THEN Throw(w, Err("", "Invalid plugin"))
    ELSE Finished(PluginRun(Logged(w, "plugin", Get(plugin, "id").s), env,
                            Get(plugin, "id").s),
                  Get(plugin, "id").s)

\* lines 166-182: the plugin list from entry i on
RECURSIVE RunPluginsFrom(_, _, _, _)
RunPluginsFrom(w, env, plugins, i) ==
    IF i > Len(plugins) \/ w.err.thrown THEN w
    ELSE RunPluginsFrom(RunPlugin(w, env, plugins[i]), env, plugins, i + 1)

\* lines 161-182
RunPlugins(w, env, plugins) ==
    IF plugins.err.thrown THEN Throw(w, plugins.err)
    ELSE RunPluginsFrom(w, env, PluginList(plugins.val), 1)

\* lines 147-184
preprocess(w, env) ==
    IF w.err.thrown THEN w
    ELSE IF _getJsonFile(w.files, Join(AppPath, AppJsonName)).err.thrown
    THEN IF _getJsonFile(w.files, Join(AppPath, AppJsonName)).err.code = "ENOENT"
         THEN Throw(w, Err("", "Could not find a valid Homey App"))
         ELSE Throw(w, Err("", "Error in app.json"))
    ELSE RunPlugins(w, env, _getPlugins(w.files))

\* install that goes on whatever validate() returned
ValidatedOrNot(w, env) ==
    IF w.err.thrown THEN w
    ELSE Logged(w, "validate", IF env.valid THEN "true" ELSE "false")

\* lines 50-62 and 115-116: validate() gives false where homey-lib throws
Validated(w, env) ==
    IF w.err.thrown THEN w
    ELSE IF env.valid THEN Logged(w, "validate", "true")
    ELSE Throw(Logged(w, "validate", "false"), Err("", "Not installing"))

\* lines 118-144: the active Homey is looked up, the archive packed, the
\* archive posted
Sent(w, env) ==
    IF w.err.thrown THEN w
    ELSE IF ~env.homey THEN Throw(w, Err("", "No active Homey"))
    ELSE IF ~env.pack THEN Throw(Logged(w, "pack", ""), Err("", "pack failed"))
    ELSE IF ~env.upload
    THEN Throw(Logged(Logged(w, "pack", ""), "upload", ""), Err("", "upload failed"))
    ELSE Logged(Logged(w, "pack", ""), "upload", "")

\* lines 107-145
install(w, env) == Sent(Validated(preprocess(w, env), env), env)

\* GitCommands.isGitRepo, lines 33-36: fs.stat rejects where nothing is
isGitRepo(w) ==
    IF Join(AppPath, ".git") \in DOMAIN w.dirs \cup DOMAIN w.files
    THEN [w EXCEPT !.ret = "true"]
    ELSE Throw(w, Err("ENOENT", "ENOENT: no such file or directory"))

\* ---- app directories for the methods of App
WithFile(part, dirPath, name, file) ==
    Part((Join(dirPath, name) :> file) @@ part.files,
         [q \in DOMAIN part.dirs |->
             IF q = dirPath THEN Dir(Append(part.dirs[q].names, name)) ELSE part.dirs[q]])
WithDir(part, dirPath, name) ==
    Part(part.files,
         (Join(dirPath, name) :> Dir(<<>>))
             @@ [q \in DOMAIN part.dirs |->
                    IF q = dirPath THEN Dir(Append(part.dirs[q].names, name)) ELSE part.dirs[q]])

PluginEntry(id) == O1("id", Str(id))
PluginFiles ==
    { JsonFile(Arr(<<>>)),
      JsonFile(Arr(<< PluginEntry("compose") >>)),
      JsonFile(Arr(<< PluginEntry("zwave"), PluginEntry("compose") >>)),
      JsonFile(Arr(<< PluginEntry("compose"), PluginEntry("nope"), PluginEntry("zwave") >>)),
      JsonFile(Arr(<< PluginEntry("zwave"), PluginEntry("rf"), PluginEntry("compose") >>)),
      JsonFile(Arr(<< PluginEntry("zigbee"), PluginEntry("zwave") >>)),
      JsonFile(Arr(<< O1("options", Obj(<<>>)), PluginEntry("compose") >>)),
      Malformed }

\* a directory compose finishes on, one it fails on (an unknown pair
\* template), one without app.json and one with a malformed app.json
ComposableApp ==
    Plus(BasePart(JsonFile(BaseStale)),
         Plus(FlowStd,
              Plus(DriversList(<< "plug" >>),
                   DriverDir("plug", JsonFile(DriverPlug), NoFile, NoFile))))
UncomposableApp ==
    Plus(BasePart(JsonFile(BaseMinimal)),
         Plus(DriversList(<< "lamp" >>),
              DriverDir("lamp", JsonFile(O1("pair", Arr(<< PairView("bad", "nope") >>))),
                        NoFile, NoFile)))
AppDirs == { ComposableApp, UncomposableApp, NoBasePart, BasePart(Malformed) }

AppScenarios ==
    { d : d \in AppDirs }
    \cup { WithFile(d, AppPath, ".homeyplugins.json", f) : d \in AppDirs, f \in PluginFiles }
    \cup { WithDir(WithFile(d, AppPath, ".homeyplugins.json", f), AppPath, ".git") :
             d \in AppDirs, f \in PluginFiles }
    \cup { WithFile(d, AppPath, ".git", TextFile("gitdir: ../.git/worktrees/app")) :
             d \in AppDirs }

MaxCalls == 2
\* what the outside can do during one call: at most one of the steps after
\* the plugins fails, the steps after a failing one are not reached
Envs ==
    { e \in [valid : BOOLEAN, zwave : BOOLEAN, homey : BOOLEAN, pack : BOOLEAN,
             upload : BOOLEAN] :
        Cardinality({ f \in { "valid", "homey", "pack", "upload" } : ~e[f] }) <= 1 }
PluginIds == { "compose", "rf", "zwave" }

InitApp ==
    \E s \in AppScenarios :
        /\ files = s.files
        /\ dirs = s.dirs
        /\ runs = <<>>
        /\ pc = "idle"
        /\ ctx = NewContext(NoFiles, NoDirs)
        /\ calls = <<>>
        /\ app = NoApp
        /\ io = NoIo

\* a method has returned or thrown: w is what it leaves
Called(method, arg, w) ==
    /\ Len(calls) < MaxCalls
    /\ files' = w.files
    /\ dirs' = w.dirs
    /\ calls' = Append(calls, [method |-> method, arg |-> arg,
                               before |-> Part(files, dirs), after |-> Part(w.files, w.dirs),
                               err |-> w.err, ret |-> w.ret, log |-> w.log,
                               writes |-> w.writes])
    /\ UNCHANGED << runs, pc, ctx, app, io >>

Preprocess == \E env \in Envs : Called("preprocess", "", preprocess(NewWorld(files, dirs), env))
Install == \E env \in Envs : Called("install", "", install(NewWorld(files, dirs), env))
AddPlugin ==
    \E pluginId \in PluginIds :
        Called("addPlugin", pluginId, addPlugin(NewWorld(files, dirs), pluginId))
IsGitRepo == Called("isGitRepo", "", isGitRepo(NewWorld(files, dirs)))

NextApp ==
    \/ Preprocess
    \/ Install
    \/ AddPlugin
    \/ IsGitRepo

SpecApp == InitApp /\ [][NextApp]_vars

(***************************************************************************)
(* An app session (App.run, lines 75-105, _onStd and _onCtrlC).  The state *)
(* starts when run() has returned: the app is installed, this._session is  *)
(* set, the chain subscribe -> getAppStdOut -> replay is pending, _onStd   *)
(* listens to 'std' and _onCtrlC to Ctrl+C.  app is the instance with, as  *)
(* written, what it has handed to process.stdout and process.stderr; io    *)
(* is what is pending: the replay chain, the stage of the first Ctrl+C,    *)
(* the stopApp requests made, and every std handed to _onStd so far.       *)
(***************************************************************************)
MaxStd == 2
MaxCache == 2
MaxCtrlC == 2

CurrentSession == "s1"
\* std messages: of this session and of an earlier one, the first of a
\* session on stdout, the second on stderr
Messages ==
    { [id |-> n, session |-> session, type |-> IF n = 1 THEN "stdout" ELSE "stderr"] :
        n \in { 1, 2 }, session \in { CurrentSession, "s0" } }
Caches == UNION { [1..n -> Messages] : n \in 0..MaxCache }

\* _onStd without line 239
_onStdUnmarked(a, std) ==
    IF a._exiting \/ std.session # a._session \/ std.id \in a._std THEN a
    ELSE [a EXCEPT !.written = IF std.type \in { "stdout", "stderr" } THEN Append(@, std) ELSE @]

\* lines 230-240
_onStd(a, std) ==
    IF a._exiting \/ std.session # a._session \/ std.id \in a._std THEN a
    ELSE [a EXCEPT !.written = IF std.type \in { "stdout", "stderr" } THEN Append(@, std) ELSE @,
                   !._std = @ \cup { std.id }]

\* lines 95-100: stdCache.forEach(_onStd) from entry i on
RECURSIVE ReplayFrom(_, _, _)
ReplayFrom(a, stdCache, i) ==
    IF i > Len(stdCache) THEN a ELSE ReplayFrom(_onStd(a, stdCache[i]), stdCache, i + 1)

\* _onCtrlC without line 243
_onCtrlCUnguarded(a, o) ==
    [app |-> [a EXCEPT !._exiting = TRUE], io |-> [o EXCEPT !.ctrlC = "getActiveHomey"]]

\* lines 242-250: _onCtrlC up to its first await
_onCtrlC(a, o) ==
    IF a._exiting THEN [app |-> a, io |-> o]
    ELSE [app |-> [a EXCEPT !._exiting = TRUE], io |-> [o EXCEPT !.ctrlC = "getActiveHomey"]]

InitSession ==
    /\ files = NoFiles
    /\ dirs = NoDirs
    /\ runs = <<>>
    /\ pc = "idle"
    /\ ctx = NewContext(NoFiles, NoDirs)
    /\ calls = <<>>
    /\ app = [_exiting |-> FALSE, _session |-> CurrentSession, _std |-> {}, written |-> <<>>]
    /\ io = [subscribe |-> "pending", ctrlC |-> "none", stopApp |-> 0, presses |-> 0,
             live |-> 0, handled |-> <<>>]

\* the devkit emits 'std'
OnStd ==
    /\ io.ctrlC # "exited"
    /\ io.live < MaxStd
    /\ \E std \in Messages :
           /\ app' = _onStd(app, std)
           /\ io' = [io EXCEPT !.live = @ + 1, !.handled = Append(@, std)]
    /\ UNCHANGED << files, dirs, runs, pc, ctx, calls >>

\* getAppStdOut resolves with the cached list
OnStdCache ==
    /\ io.ctrlC # "exited"
    /\ io.subscribe = "pending"
    /\ \E stdCache \in Caches :
           /\ app' = ReplayFrom(app, stdCache, 1)
           /\ io' = [io EXCEPT !.subscribe = "settled", !.handled = @ \o stdCache]
    /\ UNCHANGED << files, dirs, runs, pc, ctx, calls >>

\* subscribe or getAppStdOut rejects: line 101 logs the error
SubscribeFails ==
    /\ io.ctrlC # "exited"
    /\ io.subscribe = "pending"
    /\ io' = [io EXCEPT !.subscribe = "settled"]
    /\ UNCHANGED << files, dirs, runs, pc, ctx, calls, app >>

\* Ctrl+C is pressed
OnCtrlC ==
    /\ io.ctrlC # "exited"
    /\ io.presses < MaxCtrlC
    /\ app' = _onCtrlC(app, io).app
    /\ io' = [_onCtrlC(app, io).io EXCEPT !.presses = @ + 1]
    /\ UNCHANGED << files, dirs, runs, pc, ctx, calls >>

\* lines 250-251: getActiveHomey settles; stopApp is requested when it resolved
ActiveHomeySettles ==
    /\ io.ctrlC = "getActiveHomey"
    /\ \E resolved \in BOOLEAN :
           io' = IF resolved THEN [io EXCEPT !.ctrlC = "stopApp", !.stopApp = @ + 1]
                 ELSE [io EXCEPT !.ctrlC = "exited"]
    /\ UNCHANGED << files, dirs, runs, pc, ctx, calls, app >>

\* lines 251-257: stopApp settles; resolved or rejected, process.exit() follows
StopAppSettles ==
    /\ io.ctrlC = "stopApp"
    /\ io' = [io EXCEPT !.ctrlC = "exited"]
    /\ UNCHANGED << files, dirs, runs, pc, ctx, calls, app >>

NextSession ==
    \/ OnStd
    \/ OnStdCache
    \/ SubscribeFails
    \/ OnCtrlC
    \/ ActiveHomeySettles
    \/ StopAppSettles

SpecSession == InitSession /\ [][NextSession]_vars

(***************************************************************************)
(* Properties                                                              *)
(***************************************************************************)
AppJsonFilePath == Join(AppPath, AppJsonName)
RunIds == 1..Len(runs)
Succeeded(i) == ~runs[i].err.thrown
\* the manifest a successful run wrote
Written(i) == runs[i].after.files[AppJsonFilePath].doc
\* the documents a run found in the two manifest files
BaseOf(i) == runs[i].before.files[AppJsonFilePath].doc
HasOverlay(i) ==
    /\ Join(AppPathCompose, AppJsonName) \in DOMAIN runs[i].before.files
    /\ runs[i].before.files[Join(AppPathCompose, AppJsonName)].kind = "json"
OverlayOf(i) == runs[i].before.files[Join(AppPathCompose, AppJsonName)].doc

RECURSIVE NoDollarKeys(_)
NoDollarKeys(d) ==
    \A i \in 1..Len(d.kv) : ~StartsWithDollar(d.kv[i].k) /\ NoDollarKeys(d.kv[i].v)

\* some element of an array under d is an object with a '$' key
RECURSIVE DollarKeyInArray(_, _)
DollarKeyInArray(d, inArray) ==
    \E i \in 1..Len(d.kv) :
        \/ inArray /\ StartsWithDollar(d.kv[i].k)
        \/ DollarKeyInArray(d.kv[i].v, d.kv[i].v.t = "arr" \/ (inArray /\ d.t = "arr"))

\* C1: after a successful compose run no key of the written app.json, at
\* any depth, begins with '$'.
C1_NoDollarKeyWritten ==
    \A i \in RunIds : Succeeded(i) => NoDollarKeys(Written(i))

\* C1 witness: a successful run whose assembled manifest held '$' keys at
\* the top level (from base and overlay), in drivers, flow cards,
\* capabilities, signals and screensavers, and in objects inside arrays.
C1_Witness ==
    \E i \in RunIds :
        /\ Succeeded(i)
        /\ \E k \in 1..Len(runs[i].appJson.kv) : StartsWithDollar(runs[i].appJson.kv[k].k)
        /\ \A section \in {"drivers", "flow", "capabilities", "signals", "screensavers"} :
               ~NoDollarKeys(Get(runs[i].appJson, section))
        /\ DollarKeyInArray(Get(runs[i].appJson, "contributors"), TRUE)
        /\ NoDollarKeys(Written(i))

\* C2: two compose runs in succession on an unchanged directory write a
\* byte-identical app.json.
C2_SecondRunWritesSameBytes ==
    \A i \in RunIds :
        (i > 1 /\ Succeeded(i - 1) /\ Succeeded(i) /\ runs[i].before = runs[i - 1].after)
            => JsonStringify(Written(i)) = JsonStringify(Written(i - 1))

\* C2 witness: a second successful run that read, as its base, an app.json
\* the first run had changed.
C2_Witness ==
    \E i \in RunIds :
        /\ i > 1 /\ Succeeded(i - 1) /\ Succeeded(i) /\ runs[i].before = runs[i - 1].after
        /\ BaseOf(i) = Written(i - 1)
        /\ BaseOf(i) # BaseOf(i - 1)
        /\ Len(Get(Written(i), "flow").kv) > 0

SectionKeys == {"flow", "drivers", "capabilities", "signals", "screensavers"}

\* C9 (as claimed): a top-level key that the base app.json and the overlay
\* both define, and that is no rebuilt section, carries the overlay's
\* value in the written manifest.
C9_OverlayWins ==
    \A i \in RunIds :
        (Succeeded(i) /\ HasOverlay(i)) =>
            \A k \in 1..Len(OverlayOf(i).kv) :
                LET key == OverlayOf(i).kv[k].k
                IN  (Has(BaseOf(i), key) /\ key \notin SectionKeys /\ ~StartsWithDollar(key))
                        => Get(Written(i), key)
                             = removeDollarPropertiesRecursive(OverlayOf(i).kv[k].v)

\* the JSON files every run of a directory reads: the manifest pair, every
\* .json entry of the fragment directories, the three files of every
\* driver directory, and the templates once a descriptor has $extends
JsonEntries(d, dirPath) ==
    { Join(dirPath, _getFiles(d.dirs, dirPath)[k]) :
        k \in { n \in 1..Len(_getFiles(d.dirs, dirPath)) :
                  ExtName(_getFiles(d.dirs, dirPath)[n]) = ".json" } }

DriverIds(d) ==
    { _getFiles(d.dirs, Join(AppPath, "drivers"))[k] :
        k \in { n \in 1..Len(_getFiles(d.dirs, Join(AppPath, "drivers"))) :
                  ~StartsWithDot(_getFiles(d.dirs, Join(AppPath, "drivers"))[n]) } }

FragmentsRead(d) ==
    { AppJsonFilePath, Join(AppPathCompose, AppJsonName) }
    \cup UNION { JsonEntries(d, FlowPath(FLOW_TYPES[t])) : t \in 1..Len(FLOW_TYPES) }
    \cup UNION { JsonEntries(d, SignalsPath(Frequencies[t])) : t \in 1..Len(Frequencies) }
    \cup JsonEntries(d, CapabilitiesPath)
    \cup JsonEntries(d, ScreensaversPath)
    \cup JsonEntries(d, AppLocalesPath)
    \cup JsonEntries(d, AppComposeLocalesPath)
    \cup UNION { { Join(DriverPath(id), "driver.compose.json"),
                   Join(DriverPath(id), "driver.settings.compose.json"),
                   Join(DriverPath(id), "driver.flow.compose.json") } : id \in DriverIds(d) }
    \cup (IF \E id \in DriverIds(d) :
                 /\ Join(DriverPath(id), "driver.compose.json") \in DOMAIN d.files
                 /\ Truthy(Get(d.files[Join(DriverPath(id), "driver.compose.json")].doc, "$extends"))
          THEN JsonEntries(d, TemplatesPath) ELSE {})

MalformedRead(d) ==
    { q \in FragmentsRead(d) \cap DOMAIN d.files : d.files[q].kind = "malformed" }

AppJsonUnchanged(i) ==
    /\ (AppJsonFilePath \in DOMAIN runs[i].after.files) = (AppJsonFilePath \in DOMAIN runs[i].before.files)
    /\ AppJsonFilePath \in DOMAIN runs[i].before.files
          => runs[i].after.files[AppJsonFilePath] = runs[i].before.files[AppJsonFilePath]

\* C10: a run that reads a malformed JSON fragment ends with an error, and
\* a run that ends with an error leaves app.json as it was: app.json is
\* written only by the last step of a run without error.
C10_MalformedAbortsBeforeSave ==
    \A i \in RunIds :
        /\ MalformedRead(runs[i].before) # {} => ~Succeeded(i)
        /\ ~Succeeded(i) => AppJsonUnchanged(i)

\* C10 witness: a malformed compose locale fragment, read by the last step
\* before the save: every section had been assembled, the run ended with
\* the parse error and app.json is as it was.
C10_Witness ==
    \E i \in RunIds :
        /\ MalformedRead(runs[i].before) \cap JsonEntries(runs[i].before, AppComposeLocalesPath) # {}
        /\ runs[i].err.msg = "Error in file"
        /\ Has(runs[i].appJson, "screensavers")
        /\ Get(runs[i].appJson, "screensavers") # Get(BaseOf(i), "screensavers")
        /\ AppJsonUnchanged(i)

\* the descriptor a run found in a driver directory, its $extends as a
\* list, and the template table as the directory held it
OwnOf(i, driverId) == runs[i].before.files[Join(DriverPath(driverId), "driver.compose.json")].doc
ExtendsOf(own) ==
    IF Get(own, "$extends").t = "arr" THEN Items(Get(own, "$extends"))
    ELSE << Get(own, "$extends") >>
InTable(i, templateId) ==
    Join(TemplatesPath, templateId.s \o ".json") \in JsonEntries(runs[i].before, TemplatesPath)
TemplateOf(i, templateId) == runs[i].before.files[Join(TemplatesPath, templateId.s \o ".json")].doc
Defines(i, templateId, F) == InTable(i, templateId) /\ Has(TemplateOf(i, templateId), F)
LastDefining(i, ids, F) ==
    CHOOSE j \in 1..Len(ids) :
        Defines(i, ids[j], F) /\ \A m \in (j + 1)..Len(ids) : ~Defines(i, ids[m], F)

\* C3: for a driver with $extends, a field the descriptor defines has the
\* descriptor's whole value in the resolved driver, any other field has the
\* whole value of the last listed template that defines it, and the
\* resolved driver has no field but these (the $extends list aside).
C3_ExtendsShallowOverlay ==
    \A i \in RunIds : \A n \in 1..Len(runs[i].resolved) :
        LET driverJson == runs[i].resolved[n].driverJson
            own == OwnOf(i, runs[i].resolved[n].id)
            ids == ExtendsOf(own)
        IN  Truthy(Get(own, "$extends")) =>
                /\ \A k \in 1..Len(driverJson.kv) :
                       LET F == driverJson.kv[k].k
                       IN  F # "$extends" =>
                               IF Has(own, F) THEN driverJson.kv[k].v = Get(own, F)
                               ELSE /\ \E j \in 1..Len(ids) : Defines(i, ids[j], F)
                                    /\ driverJson.kv[k].v
                                         = Get(TemplateOf(i, ids[LastDefining(i, ids, F)]), F)
                /\ \A k \in 1..Len(own.kv) : Has(driverJson, own.kv[k].k)
                /\ \A j \in 1..Len(ids) :
                       InTable(i, ids[j]) =>
                           \A k \in 1..Len(TemplateOf(i, ids[j]).kv) :
                               Has(driverJson, TemplateOf(i, ids[j]).kv[k].k)

\* C3 witness: a driver that extends t1 then t2 and defines images itself:
\* class, which both templates define, is t2's; images, which t1 defines
\* with two keys, is the descriptor's one-key value; capabilities is t2's;
\* and the written manifest carries these.
C3_Witness ==
    \E i \in RunIds :
        /\ Succeeded(i)
        /\ Len(runs[i].resolved) = 1
        /\ runs[i].resolved[1].id = "lamp"
        /\ Get(OwnOf(i, "lamp"), "$extends") = Arr(<< Str("t1"), Str("t2") >>)
        /\ Has(OwnOf(i, "lamp"), "images") /\ ~Has(OwnOf(i, "lamp"), "class")
        /\ Get(runs[i].resolved[1].driverJson, "class") = Str("light")
        /\ Get(runs[i].resolved[1].driverJson, "images") = O1("large", Str("own-large.png"))
        /\ Get(Get(Get(Written(i), "drivers"), "0"), "class") = Str("light")
        /\ Get(Get(Get(Written(i), "drivers"), "0"), "images") = O1("large", Str("own-large.png"))

\* some driver of the directory names, in $extends, a template id that has
\* no entry in the template table
NamesUnknownTemplate(i) ==
    \E driverId \in DriverIds(runs[i].before) :
        /\ Join(DriverPath(driverId), "driver.compose.json") \in DOMAIN runs[i].before.files
        /\ runs[i].before.files[Join(DriverPath(driverId), "driver.compose.json")].kind = "json"
        /\ Truthy(Get(OwnOf(i, driverId), "$extends"))
        /\ \E j \in 1..Len(ExtendsOf(OwnOf(i, driverId))) :
               /\ ExtendsOf(OwnOf(i, driverId))[j].t = "str"
               /\ ~InTable(i, ExtendsOf(OwnOf(i, driverId))[j])

\* C4 (as claimed): a run on a directory where a driver's $extends names a
\* template id without an entry in the template table ends with an error
\* and leaves app.json unwritten.
C4_UnknownTemplateFails ==
    \A i \in RunIds :
        NamesUnknownTemplate(i) => (~Succeeded(i) /\ AppJsonUnchanged(i))

\* the cards of one kind a run found declared in a driver's
\* driver.flow.compose.json, and the cards of that kind it wrote
DeclaredCards(i, driverId, type) ==
    IF /\ Join(DriverPath(driverId), "driver.flow.compose.json") \in DOMAIN runs[i].before.files
       /\ runs[i].before.files[Join(DriverPath(driverId), "driver.flow.compose.json")].kind = "json"
    THEN Items(Get(runs[i].before.files[Join(DriverPath(driverId),
                                             "driver.flow.compose.json")].doc, type))
    ELSE <<>>
ManifestCards(i, type) == Items(Get(Get(Written(i), "flow"), type))
CardId(card) == IF Has(card, "$id") THEN Get(card, "$id") ELSE Get(card, "id")

\* C5 (as claimed): the manifest card of every driver-scoped card has one
\* argument in front, followed by the arguments the card declared in the
\* fragment, in their order.
C5_CardKeepsOwnArgs ==
    \A i \in RunIds : Succeeded(i) =>
        \A driverId \in DriverIds(runs[i].before) : \A t \in 1..Len(FLOW_TYPES) :
            \A n \in 1..Len(DeclaredCards(i, driverId, FLOW_TYPES[t])) :
                LET card == DeclaredCards(i, driverId, FLOW_TYPES[t])[n]
                IN  \E m \in 1..Len(ManifestCards(i, FLOW_TYPES[t])) :
                        LET args == Items(Get(ManifestCards(i, FLOW_TYPES[t])[m], "args"))
                        IN  /\ Get(ManifestCards(i, FLOW_TYPES[t])[m], "id") = CardId(card)
                            /\ Len(args) >= 1
                            /\ Tail(args)
                                 = Items(removeDollarPropertiesRecursive(Get(card, "args")))

RECURSIVE At(_, _)
At(tree, keyPath) ==
    IF keyPath = <<>> THEN tree ELSE At(Get(tree, Head(keyPath)), Tail(keyPath))

\* wherever target and source hold the same key: two mappings agree on
\* this below, and any other source value is the merged value
RECURSIVE LaterValueReplaces(_, _, _)
LaterValueReplaces(merged, target, source) ==
    \A k \in 1..Len(source.kv) :
        LET key == source.kv[k].k
            val == source.kv[k].v
        IN  Has(target, key) =>
                IF val.t = "obj" /\ Get(target, key).t = "obj"
                THEN LaterValueReplaces(Get(merged, key), Get(target, key), val)
                ELSE val.t # "obj" => Get(merged, key) = val

\* C7 (as claimed): in every merge of a compose locale fragment, a key that
\* the tree and the fragment both hold, and whose fragment value is a
\* string or an array, has exactly the fragment's value afterwards.
C7_NonMappingReplaced ==
    \A i \in RunIds : \A n \in 1..Len(runs[i].localeSteps) :
        LaterValueReplaces(At(runs[i].localeSteps[n].after, runs[i].localeSteps[n].path),
                           At(runs[i].localeSteps[n].before, runs[i].localeSteps[n].path),
                           runs[i].localeSteps[n].fragment)

\* merged is the deep merge of source into target, a mapping or nothing:
\* no key but theirs, the keys of target alone as they were, the keys of
\* source alone as source has them, and a key of both merged in the same
\* way when both values are mappings and the source's value otherwise (two
\* arrays aside: see C7)
RECURSIVE IsDeepMerge(_, _, _)
IsDeepMerge(merged, target, source) ==
    /\ merged.t = "obj"
    /\ \A k \in 1..Len(merged.kv) : Has(target, merged.kv[k].k) \/ Has(source, merged.kv[k].k)
    /\ \A k \in 1..Len(target.kv) :
           ~Has(source, target.kv[k].k) => Get(merged, target.kv[k].k) = target.kv[k].v
    /\ \A k \in 1..Len(source.kv) :
           LET key == source.kv[k].k
               val == source.kv[k].v
           IN  IF Has(target, key) /\ val.t = "obj" /\ Get(target, key).t = "obj"
               THEN IsDeepMerge(Get(merged, key), Get(target, key), val)
               ELSE IF Has(target, key) /\ val.t = "arr" /\ Get(target, key).t = "arr"
               THEN Has(merged, key)
               ELSE Get(merged, key) = val

\* along a key path, every key off the path is as it was, and the path's
\* own keys are there
RECURSIVE OutsideUnchanged(_, _, _)
OutsideUnchanged(before, after, keyPath) ==
    \/ keyPath = <<>>
    \/ /\ after.t = "obj"
       /\ Has(after, Head(keyPath))
       /\ \A k \in 1..Len(before.kv) :
              before.kv[k].k # Head(keyPath) => Get(after, before.kv[k].k) = before.kv[k].v
       /\ \A k \in 1..Len(after.kv) :
              after.kv[k].k # Head(keyPath) => Has(before, after.kv[k].k)
       /\ OutsideUnchanged(Get(before, Head(keyPath)), Get(after, Head(keyPath)), Tail(keyPath))

\* the tree holds a mapping, or nothing, at the path and at every key on
\* the way
ThroughMappings(tree, keyPath) ==
    \A j \in 0..Len(keyPath) : At(tree, SubSeq(keyPath, 1, j)).t \in { "obj", "undef" }

\* <lang>.<p1>...<pk>.json
RECURSIVE Dotted(_)
Dotted(keyPath) == IF keyPath = <<>> THEN "" ELSE "." \o Head(keyPath) \o Dotted(Tail(keyPath))
FragmentName(language, keyPath) == language \o Dotted(keyPath) \o ".json"

\* the .json entries of the compose locales directory, in listing order
FragmentNames(i) ==
    SelectSeq(_getFiles(runs[i].before.dirs, AppComposeLocalesPath),
              LAMBDA name : ExtName(name) = ".json")

\* the tree of its language a merge started from: the one the last merge
\* for that language left, else the one read from locales/<lang>.json, else
\* the empty tree
TreeBefore(i, n) ==
    LET language == runs[i].localeSteps[n].language
        earlier == { m \in 1..(n - 1) : runs[i].localeSteps[m].language = language }
    IN  IF earlier # {}
        THEN runs[i].localeSteps[CHOOSE m \in earlier : \A o \in earlier : o <= m].after
        ELSE IF Join(AppLocalesPath, language \o ".json")
                    \in JsonEntries(runs[i].before, AppLocalesPath)
        THEN runs[i].before.files[Join(AppLocalesPath, language \o ".json")].doc
        ELSE Obj(<<>>)

\* a later merge for the same language
Superseded(i, n) ==
    \E m \in (n + 1)..Len(runs[i].localeSteps) :
        runs[i].localeSteps[m].language = runs[i].localeSteps[n].language

RECURSIVE Flatten(_)
Flatten(lists) == IF lists = <<>> THEN <<>> ELSE Head(lists) \o Flatten(Tail(lists))

GlobalFragmentNames(i, type) ==
    SelectSeq(_getFiles(runs[i].before.dirs, FlowPath(type)),
              LAMBDA name : ExtName(name) = ".json")

GlobalCards(i, type) ==
    [k \in 1..Len(GlobalFragmentNames(i, type)) |->
        [card |-> runs[i].before.files[Join(FlowPath(type),
                                            GlobalFragmentNames(i, type)[k])].doc,
         fallback |-> Str(BaseName(GlobalFragmentNames(i, type)[k], ".json")),
         scope |-> "global"]]

DriverNames(i) ==
    SelectSeq(_getFiles(runs[i].before.dirs, Join(AppPath, "drivers")),
              LAMBDA name : ~StartsWithDot(name))

DriverScopedCards(i, type) ==
    Flatten([d \in 1..Len(DriverNames(i)) |->
                [n \in 1..Len(DeclaredCards(i, DriverNames(i)[d], type)) |->
                    [card |-> DeclaredCards(i, DriverNames(i)[d], type)[n],
                     fallback |-> Undef,
                     scope |-> "driver"]]])

Contributed(i, type) == GlobalCards(i, type) \o DriverScopedCards(i, type)

\* the first non-empty of $id, id and the fallback
ExpectedId(src) ==
    IF Get(src.card, "$id").t = "str" /\ Get(src.card, "$id").s # "" THEN Get(src.card, "$id")
    ELSE IF Get(src.card, "id").t = "str" /\ Get(src.card, "id").s # "" THEN Get(src.card, "id")
    ELSE src.fallback

\* a manifest card that comes from the contributed card src: the expected
\* id (none at all when there is nothing to take it from), and the fields
\* of src but id, args and the '$' keys
IsCardOf(manifestCard, src) ==
    /\ Get(manifestCard, "id") = ExpectedId(src)
    /\ \A k \in 1..Len(src.card.kv) :
           (src.card.kv[k].k \notin { "id", "args" } /\ ~StartsWithDollar(src.card.kv[k].k))
               => Get(manifestCard, src.card.kv[k].k)
                    = removeDollarPropertiesRecursive(src.card.kv[k].v)

\* C11: in the manifest a run wrote, every contributed flow card is there
\* with, as id, the first non-empty of its $id, its own id and the fallback
\* (the fragment's file name without extension for a global card, nothing
\* for a driver-scoped card), and every card of the manifest is one of them.
C11_CardIdResolution ==
    \A i \in RunIds : Succeeded(i) =>
        \A t \in 1..Len(FLOW_TYPES) :
            /\ \A n \in 1..Len(Contributed(i, FLOW_TYPES[t])) :
                   \E m \in 1..Len(ManifestCards(i, FLOW_TYPES[t])) :
                       IsCardOf(ManifestCards(i, FLOW_TYPES[t])[m],
                                Contributed(i, FLOW_TYPES[t])[n])
            /\ \A m \in 1..Len(ManifestCards(i, FLOW_TYPES[t])) :
                   \E n \in 1..Len(Contributed(i, FLOW_TYPES[t])) :
                       IsCardOf(ManifestCards(i, FLOW_TYPES[t])[m],
                                Contributed(i, FLOW_TYPES[t])[n])

\* C11 witness: global cards whose id comes from a $id over an own id, from
\* an own id under an empty $id, and a driver-scoped card with neither,
\* which the manifest holds without id.
C11_Witness ==
    \E i \in RunIds :
        /\ Succeeded(i)
        /\ GlobalFragmentNames(i, "triggers") = << "x.json", "y.json", "z.json" >>
        /\ DriverNames(i) = << "plug", "lamp" >>
        /\ \E m \in 1..Len(ManifestCards(i, "triggers")) :
               /\ Get(ManifestCards(i, "triggers")[m], "title") = O1("en", Str("Z"))
               /\ Get(ManifestCards(i, "triggers")[m], "id") = Str("first")
        /\ \E m \in 1..Len(ManifestCards(i, "triggers")) :
               /\ Get(ManifestCards(i, "triggers")[m], "title") = O1("en", Str("X"))
               /\ Get(ManifestCards(i, "triggers")[m], "id") = Str("c_plain")
        /\ \E m \in 1..Len(ManifestCards(i, "triggers")) :
               /\ Get(ManifestCards(i, "triggers")[m], "title") = O1("en", Str("P2"))
               /\ ~Has(ManifestCards(i, "triggers")[m], "id")

\* C12 (as claimed): flow[kind] of the written manifest holds the global
\* cards in directory-listing order of their fragments, then the
\* driver-scoped cards in listing order of the drivers and, per driver, in
\* the order of its flow fragment.
C12_GlobalThenDriverOrder ==
    \A i \in RunIds : Succeeded(i) =>
        \A t \in 1..Len(FLOW_TYPES) :
            /\ Len(ManifestCards(i, FLOW_TYPES[t])) = Len(Contributed(i, FLOW_TYPES[t]))
            /\ \A m \in 1..Len(ManifestCards(i, FLOW_TYPES[t])) :
                   IsCardOf(ManifestCards(i, FLOW_TYPES[t])[m],
                            Contributed(i, FLOW_TYPES[t])[m])

\* C20: flow[kind] of the written manifest has as many cards as were
\* contributed, whatever their ids.
C20_NoDeduplication ==
    \A i \in RunIds : Succeeded(i) =>
        \A t \in 1..Len(FLOW_TYPES) :
            Len(ManifestCards(i, FLOW_TYPES[t])) = Len(Contributed(i, FLOW_TYPES[t]))

\* C20 witness: two global fragments and two driver-scoped cards of two
\* drivers all yield the id c_plain, and the manifest holds the four of
\* them among its seven triggers.
C20_Witness ==
    \E i \in RunIds :
        /\ Succeeded(i)
        /\ Len(Contributed(i, "triggers")) = 7
        /\ Len(ManifestCards(i, "triggers")) = 7
        /\ Cardinality({ n \in 1..7 :
                           ExpectedId(Contributed(i, "triggers")[n]) = Str("c_plain") }) = 4
        /\ \E n \in 1..7 : /\ Contributed(i, "triggers")[n].scope = "global"
                           /\ ExpectedId(Contributed(i, "triggers")[n]) = Str("c_plain")
        /\ Cardinality({ m \in 1..7 :
                           Get(ManifestCards(i, "triggers")[m], "id") = Str("c_plain") }) = 4

\* the .json entries of a fragment directory, and the key and the value a
\* fragment is to have in the manifest
FragmentNamesAt(i, dirPath) ==
    SelectSeq(_getFiles(runs[i].before.dirs, dirPath), LAMBDA name : ExtName(name) = ".json")
FragmentAt(i, dirPath, name) == runs[i].before.files[Join(dirPath, name)].doc
KeyOf(i, dirPath, name) ==
    IF Get(FragmentAt(i, dirPath, name), "$id").t = "str"
           /\ Get(FragmentAt(i, dirPath, name), "$id").s # ""
    THEN Get(FragmentAt(i, dirPath, name), "$id").s
    ELSE BaseName(name, ".json")
KeysDistinct(i, dirPath) ==
    \A k, l \in 1..Len(FragmentNamesAt(i, dirPath)) :
        k # l => KeyOf(i, dirPath, FragmentNamesAt(i, dirPath)[k])
                   # KeyOf(i, dirPath, FragmentNamesAt(i, dirPath)[l])

\* the mapping holds the fragments of the directory, each under its key,
\* and nothing else
HoldsFragments(mapping, i, dirPath) ==
    /\ Len(mapping.kv) = Len(FragmentNamesAt(i, dirPath))
    /\ \A k \in 1..Len(FragmentNamesAt(i, dirPath)) :
           /\ Has(mapping, KeyOf(i, dirPath, FragmentNamesAt(i, dirPath)[k]))
           /\ Get(mapping, KeyOf(i, dirPath, FragmentNamesAt(i, dirPath)[k]))
                = removeDollarPropertiesRecursive(
                      FragmentAt(i, dirPath, FragmentNamesAt(i, dirPath)[k]))

\* C13: in the written manifest, capabilities holds every capability
\* fragment under its $id, or under its file name without extension when
\* it has none, and nothing else; signals has a key for a band exactly
\* when the band has a fragment, and no other key; and a band holds its
\* fragments under their keys and nothing else (fragments of one directory
\* having different keys).
C13_KeyedByIdOrFileName ==
    \A i \in RunIds : Succeeded(i) =>
        /\ KeysDistinct(i, CapabilitiesPath) =>
               HoldsFragments(Get(Written(i), "capabilities"), i, CapabilitiesPath)
        /\ \A k \in 1..Len(Get(Written(i), "signals").kv) :
               \E b \in 1..Len(Frequencies) :
                   Get(Written(i), "signals").kv[k].k = Frequencies[b]
        /\ \A b \in 1..Len(Frequencies) :
               /\ Has(Get(Written(i), "signals"), Frequencies[b])
                     <=> FragmentNamesAt(i, SignalsPath(Frequencies[b])) # <<>>
               /\ KeysDistinct(i, SignalsPath(Frequencies[b])) =>
                      HoldsFragments(Get(Get(Written(i), "signals"), Frequencies[b]),
                                     i, SignalsPath(Frequencies[b]))

\* C13 witness: one fragment in each band, a.json, b.json with a $id and
\* c.json: signals has the three band keys with one entry each, under a,
\* b_override and c; capabilities holds dim_level and my_cap.
C13_Witness ==
    \E i \in RunIds :
        /\ Succeeded(i)
        /\ \A b \in 1..Len(Frequencies) :
               Len(FragmentNamesAt(i, SignalsPath(Frequencies[b]))) = 1
        /\ Len(Get(Written(i), "signals").kv) = 3
        /\ Get(Get(Written(i), "signals"), "433") = O1("a", O1("sof", Arr(<<>>)))
        /\ Get(Get(Written(i), "signals"), "868") = O1("b_override", Obj(<<>>))
        /\ Get(Get(Written(i), "signals"), "ir") = O1("c", O1("carrier", Str("38000")))
        /\ Has(Get(Written(i), "capabilities"), "dim_level")
        /\ Has(Get(Written(i), "capabilities"), "my_cap")
        /\ ~Has(Get(Written(i), "capabilities"), "brightness")

WithEmptyManifests(d) ==
    [q \in DOMAIN d.files \cup { AppJsonFilePath, Join(AppPathCompose, AppJsonName) } |->
        IF q \in DOMAIN d.files THEN d.files[q] ELSE JsonFile(Obj(<<>>))]

\* C15 (as claimed): a run on a directory that lacks app.json, the overlay
\* .homeycompose/app.json, or both, ends as the run on the same directory
\* with the empty document {} in the place of the missing file: with the
\* same error or none, and the same app.json written.
C15_ManifestFilesOptional ==
    \A i \in RunIds :
        (\/ AppJsonFilePath \notin DOMAIN runs[i].before.files
         \/ Join(AppPathCompose, AppJsonName) \notin DOMAIN runs[i].before.files) =>
            /\ run(NewContext(WithEmptyManifests(runs[i].before), runs[i].before.dirs)).err
                 = runs[i].err
            /\ Succeeded(i) =>
                   run(NewContext(WithEmptyManifests(runs[i].before),
                                  runs[i].before.dirs)).files[AppJsonFilePath]
                     = runs[i].after.files[AppJsonFilePath]

\* the languages of a run: those with a file in locales/ and those with a
\* compose fragment; the tree a language had when the run began (none
\* without a file) and when it ended
LocaleLanguages(i) ==
    { BaseName(FragmentNamesAt(i, AppLocalesPath)[k], ".json") :
        k \in 1..Len(FragmentNamesAt(i, AppLocalesPath)) }
    \cup { runs[i].localeSteps[n].language : n \in 1..Len(runs[i].localeSteps) }
InitialTree(i, language) ==
    IF Join(AppLocalesPath, language \o ".json") \in DOMAIN runs[i].before.files
    THEN runs[i].before.files[Join(AppLocalesPath, language \o ".json")].doc
    ELSE Undef
FinalTree(i, language) ==
    LET steps == { n \in 1..Len(runs[i].localeSteps) :
                     runs[i].localeSteps[n].language = language }
    IN  IF steps = {} THEN InitialTree(i, language)
        ELSE runs[i].localeSteps[CHOOSE n \in steps : \A o \in steps : o <= n].after
WasWritten(i, filePath) == \E w \in 1..Len(runs[i].writes) : runs[i].writes[w] = filePath

\* C16 (as claimed): a run without error writes locales/<lang>.json for
\* the languages whose tree the merge changed, and for no other language.
C16_OnlyChangedLocalesWritten ==
    \A i \in RunIds : Succeeded(i) =>
        \A language \in LocaleLanguages(i) :
            WasWritten(i, Join(AppLocalesPath, language \o ".json"))
                <=> FinalTree(i, language) # InitialTree(i, language)

\* the manifest the run would write on the same directory with the empty
\* document as base app.json
FromEmptyBase(i) ==
    run(NewContext([runs[i].before.files EXCEPT ![AppJsonFilePath] = JsonFile(Obj(<<>>))],
                   runs[i].before.dirs)).files[AppJsonFilePath].doc

\* C17: after any run without error, each of flow, drivers, capabilities,
\* signals and screensavers is, in the written manifest, what the run
\* writes from the same fragments over an empty base: nothing of the base
\* app.json, be it hand-written or the output of earlier runs, is in them.
C17_SectionsRebuilt ==
    \A i \in RunIds : Succeeded(i) =>
        \A section \in SectionKeys : Get(Written(i), section) = Get(FromEmptyBase(i), section)

\* C17 witness: a run on the output of an earlier run whose base
\* had stale entries in all five sections: the sections are those of the
\* earlier run, all five non-empty, and differ from the stale ones.
C17_Witness ==
    \E i \in RunIds :
        /\ i > 1 /\ Succeeded(i - 1) /\ Succeeded(i)
        /\ BaseOf(i) = Written(i - 1)
        /\ \A section \in SectionKeys :
               /\ Has(BaseOf(i - 1), section)
               /\ Len(Get(Written(i), section).kv) > 0
               /\ Get(Written(i), section) # Get(BaseOf(i - 1), section)
               /\ Get(Written(i), section) = Get(Written(i - 1), section)

\* C18: the drivers list of the written manifest has one entry for each
\* entry of the drivers directory whose name does not begin with a dot, in
\* listing order, each with the directory name as id.
C18_DriversByDirectory ==
    \A i \in RunIds : Succeeded(i) =>
        /\ Len(Get(Written(i), "drivers").kv) = Len(DriverNames(i))
        /\ \A k \in 1..Len(DriverNames(i)) :
               Get(Items(Get(Written(i), "drivers"))[k], "id") = Str(DriverNames(i)[k])

\* C18 witness: the drivers directory lists .DS_Store, lamp and plug; the
\* descriptor of plug has another id; the manifest lists lamp, then plug.
C18_Witness ==
    \E i \in RunIds :
        /\ Succeeded(i)
        /\ _getFiles(runs[i].before.dirs, Join(AppPath, "drivers")) = << ".DS_Store", "lamp", "plug" >>
        /\ Get(OwnOf(i, "plug"), "id") = Str("not_the_directory")
        /\ Len(Get(Written(i), "drivers").kv) = 2
        /\ Get(Get(Get(Written(i), "drivers"), "0"), "id") = Str("lamp")
        /\ Get(Get(Get(Written(i), "drivers"), "1"), "id") = Str("plug")

\* the known pairing templates of a directory, and the pair entries of a
\* driver's descriptor that name a template not among them
KnownPairTemplates(i) ==
    { _getFiles(runs[i].before.dirs, ComposePairPath)[k] :
        k \in { n \in 1..Len(_getFiles(runs[i].before.dirs, ComposePairPath)) :
                  ~StartsWithDot(_getFiles(runs[i].before.dirs, ComposePairPath)[n]) } }
UnknownPairViews(i, driverId) ==
    { j \in 1..Len(Get(OwnOf(i, driverId), "pair").kv) :
        /\ Get(OwnOf(i, driverId), "pair").t = "arr"
        /\ Truthy(Get(Items(Get(OwnOf(i, driverId), "pair"))[j], "$template"))
        /\ Get(Items(Get(OwnOf(i, driverId), "pair"))[j], "$template").s
               \notin KnownPairTemplates(i) }
ReadsNoFaultyFile(i) ==
    /\ MalformedRead(runs[i].before) = {}
    /\ AppJsonFilePath \in DOMAIN runs[i].before.files
    /\ \A k \in 1..Len(DriverNames(i)) :
           Join(DriverPath(DriverNames(i)[k]), "driver.compose.json")
               \in DOMAIN runs[i].before.files

\* C19: a run on a directory (all of whose files can be read and parsed)
\* where a driver's pair list has an entry whose $template is not among
\* the known pairing templates ends with the pair-template error, has
\* written no markup and no asset for that entry, and leaves app.json as
\* it was.
C19_UnknownPairTemplateFails ==
    \A i \in RunIds : ReadsNoFaultyFile(i) =>
        \A k \in 1..Len(DriverNames(i)) : \A j \in UnknownPairViews(i, DriverNames(i)[k]) :
            LET viewId == Get(Items(Get(OwnOf(i, DriverNames(i)[k]), "pair"))[j], "id").s
                appPairPath == Join(DriverPath(DriverNames(i)[k]), "pair")
            IN  /\ runs[i].err.thrown
                /\ runs[i].err.msg = "Invalid pair template"
                /\ AppJsonUnchanged(i)
                /\ \A w \in 1..Len(runs[i].writes) :
                       /\ runs[i].writes[w] # Join(appPairPath, viewId \o ".html")
                       /\ ~StartsWith(runs[i].writes[w],
                                      Join(appPairPath, viewId \o ".assets") \o "/")
                       /\ runs[i].writes[w] # AppJsonFilePath

\* C19 witness: the pair list of lamp names rf_start, then nope, then
\* rf_start again: the run wrote the markup and the asset of the first
\* view, then ended with the pair-template error, with nothing written for
\* the second and the third view and app.json as it was.
C19_Witness ==
    \E i \in RunIds :
        /\ ReadsNoFaultyFile(i)
        /\ DriverNames(i) = << "plug", "lamp" >>
        /\ "rf_start" \in KnownPairTemplates(i)
        /\ UnknownPairViews(i, "lamp") = { 2 }
        /\ runs[i].err.msg = "Invalid pair template"
        /\ runs[i].writes = << Join(Join(DriverPath("lamp"), "pair"), "start.html"),
                               Join(Join(Join(DriverPath("lamp"), "pair"), "start.assets"), "a.png") >>
        /\ AppJsonUnchanged(i)

\* the fragment directories of a tree that exist and cannot be listed, and
\* the JSON files a run reads that exist and cannot be read
UnlistableDirs(d) ==
    { q \in FragmentDirs :
        \/ q \in DOMAIN d.dirs /\ d.dirs[q].st # "ok"
        \/ q \in DOMAIN d.files }
UnreadableRead(d) ==
    { q \in FragmentsRead(d) \cap DOMAIN d.files : d.files[q].kind = "eacces" }

\* C21: a run that meets a file-system failure other than not-found, while
\* listing a fragment directory or reading a fragment, ends with an error.
C21_OnlyNotFoundIsEmpty ==
    \A i \in RunIds :
        UnlistableDirs(runs[i].before) \cup UnreadableRead(runs[i].before) # {}
            => ~Succeeded(i)

\* C22: a run that ends with an error leaves every file of the app
\* directory (app.json, the locale files, the generated pair views and
\* their assets) as it was before the run.
C22_FailedRunChangesNothing ==
    \A i \in RunIds : ~Succeeded(i) => runs[i].after.files = runs[i].before.files

\* the steps in the order of the claim, the manifest section a step
\* rebuilds, the manifest as loaded, and the cards of the manifest in progress
StepOrder ==
    << "flow", "drivers", "capabilities", "signals", "screensavers", "locales", "save" >>
StepIndex(step) ==
    IF \E k \in 1..Len(StepOrder) : StepOrder[k] = step
    THEN CHOOSE k \in 1..Len(StepOrder) : StepOrder[k] = step
    ELSE IF step = "load" THEN 0 ELSE Len(StepOrder) + 1
SectionOf(step) ==
    CASE step = "flow" -> "flow"
      [] step = "drivers" -> "drivers"
      [] step = "capabilities" -> "capabilities"
      [] step = "signals" -> "signals"
      [] step = "screensavers" -> "screensavers"
LoadedBy(i) == LoadAppJson(NewContext(runs[i].before.files, runs[i].before.dirs)).appJson
CardsInProgress(type) ==
    Items(Or(Get(Or(Get(ctx.appJson, "flow"), Obj(<<>>)), type), Arr(<<>>)))

\* while a run goes on without error: a section whose step has not started
\* is as it was loaded, the flow section holds the global cards once the
\* flow step has returned and the global cards followed by the
\* driver-scoped cards once the driver step has returned, and no file is
\* written before the step that writes it
InStep ==
    (pc \notin { "idle", "load" } /\ ~ctx.err.thrown) =>
        /\ \A k \in 1..5 :
               StepIndex(pc) <= k
                   => Get(ctx.appJson, SectionOf(StepOrder[k]))
                          = Get(LoadedBy(Len(runs)), SectionOf(StepOrder[k]))
        /\ \A t \in 1..Len(FLOW_TYPES) :
               /\ pc = "drivers"
                      => Len(CardsInProgress(FLOW_TYPES[t]))
                             = Len(GlobalCards(Len(runs), FLOW_TYPES[t]))
               /\ StepIndex(pc) > 2
                      => Len(CardsInProgress(FLOW_TYPES[t]))
                             = Len(Contributed(Len(runs), FLOW_TYPES[t]))
        /\ StepIndex(pc) <= 2 => ctx.writes = <<>>
        /\ StepIndex(pc) <= 7
               => \A w \in 1..Len(ctx.writes) : ctx.writes[w] # AppJsonFilePath

\* C23: the steps of a run start one after another in the order flow,
\* drivers, capabilities, signals, screensavers, locales, save, each from
\* the manifest the step before it left: a section is untouched until its
\* step starts, and the cards the flow step added are all there, followed
\* by those of the driver step, when the driver step has returned.
C23_StepsOneAfterAnother ==
    /\ []InStep
    /\ [][pc' # pc =>
            \/ pc = "idle" /\ pc' = "load"
            \/ pc = "return" /\ pc' = "idle"
            \/ pc \notin { "idle", "return" } /\ ctx'.err.thrown /\ pc' = "return"
            \/ /\ pc \notin { "idle", "return" }
               /\ ~ctx'.err.thrown
               /\ StepIndex(pc') = StepIndex(pc) + 1]_vars

\* C23 witness: the driver step has returned in a run with global and
\* driver-scoped triggers: the flow section holds them all, global cards
\* first, and the capabilities section is still the stale one of the base.
C23_Witness ==
    /\ pc = "capabilities"
    /\ ~ctx.err.thrown
    /\ Len(GlobalCards(Len(runs), "triggers")) > 0
    /\ Len(DriverScopedCards(Len(runs), "triggers")) > 0
    /\ Len(CardsInProgress("triggers")) = Len(Contributed(Len(runs), "triggers"))
    /\ IsCardOf(CardsInProgress("triggers")[1], GlobalCards(Len(runs), "triggers")[1])
    /\ Has(LoadedBy(Len(runs)), "capabilities")
    /\ Get(ctx.appJson, "capabilities") = Get(LoadedBy(Len(runs)), "capabilities")
    /\ Get(ctx.appJson, "drivers") # Get(LoadedBy(Len(runs)), "drivers")

\* C30 (as claimed): a second run on the directory the first run left,
\* compose locale fragments unchanged, writes to every locales/<lang>.json
\* the text the first run wrote.
C30_LocalesSameOnSecondRun ==
    \A i \in RunIds :
        (i > 1 /\ Succeeded(i - 1) /\ Succeeded(i) /\ runs[i].before = runs[i - 1].after)
            => \A language \in LocaleLanguages(i) :
                   LET filePath == Join(AppLocalesPath, language \o ".json")
                   IN  WasWritten(i, filePath)
                           => /\ WasWritten(i - 1, filePath)
                              /\ JsonStringify(runs[i].after.files[filePath].doc)
                                     = JsonStringify(runs[i - 1].after.files[filePath].doc)

CallIds == 1..Len(calls)

\* C24 (as claimed): isGitRepo returns true where <path>/.git exists and
\* returns false, without failing, where it does not.
C24_IsGitRepoNeverFails ==
    \A k \in CallIds : calls[k].method = "isGitRepo" =>
        /\ ~calls[k].err.thrown
        /\ calls[k].ret =
               (IF Join(AppPath, ".git") \in DOMAIN calls[k].before.dirs
                                              \cup DOMAIN calls[k].before.files
                THEN "true" ELSE "false")

\* the ids of the plugin file a call found, the events of a call's log of
\* some kinds, and a call during which the plugins were reached
ListedIds(k) ==
    [j \in 1..Len(PluginList(_getPlugins(calls[k].before.files).val)) |->
        Get(PluginList(_getPlugins(calls[k].before.files).val)[j], "id")]
Events(k, kinds) == SelectSeq(calls[k].log, LAMBDA e : e.ev \in kinds)
ReachesPlugins(k) ==
    /\ calls[k].method \in { "preprocess", "install" }
    /\ ~_getJsonFile(calls[k].before.files, AppJsonFilePath).err.thrown
    /\ ~_getPlugins(calls[k].before.files).err.thrown

C28_PluginsInOrderUntilFailure ==
    \A k \in CallIds : ReachesPlugins(k) =>
        LET started == Events(k, { "plugin" })
            both == Events(k, { "plugin", "finished" })
        IN  /\ Len(started) <= Len(ListedIds(k))
            /\ \A n \in 1..Len(started) :
                   /\ ListedIds(k)[n] = Str(started[n].id)
                   /\ both[2 * n - 1] = started[n]
                   /\ n < Len(started) => both[2 * n] = [ev |-> "finished", id |-> started[n].id]
            /\ Len(both) \in { 2 * Len(started), 2 * Len(started) - 1 }
            /\ \A j \in 1..Len(ListedIds(k)) :
                   (ListedIds(k)[j].t # "str" \/ ListedIds(k)[j].s \notin PLUGINS)
                       => /\ Len(started) < j
                          /\ calls[k].err.thrown
            /\ Len(both) < 2 * Len(ListedIds(k))
                   => /\ calls[k].err.thrown
                      /\ calls[k].err.msg \in { "Plugin did not finish", "Invalid plugin" }
                      /\ Events(k, { "validate", "pack", "upload" }) = <<>>

\* C28 witness: a list of compose, an unknown id and zwave: compose ran and
\* finished, the call ended with the unknown-plugin error, zwave never ran.
C28_Witness ==
    \E k \in CallIds :
        /\ calls[k].method = "preprocess"
        /\ ListedIds(k) = << Str("compose"), Str("nope"), Str("zwave") >>
        /\ calls[k].log = << [ev |-> "plugin", id |-> "compose"],
                             [ev |-> "finished", id |-> "compose"] >>
        /\ calls[k].err.msg = "Invalid plugin"
        /\ calls[k].after.files # calls[k].before.files

\* C29 (as claimed): after a call of addPlugin(id) that returned, the
\* plugin file lists id exactly once and _hasPlugin(id) is true; when id
\* was listed before the call, the plugin file is as it was.
C29_AddPluginListsIdOnce ==
    \A k \in CallIds : (calls[k].method = "addPlugin" /\ ~calls[k].err.thrown) =>
        /\ _hasPlugin(calls[k].after.files, calls[k].arg).val
        /\ Cardinality({ j \in 1..Len(PluginList(_getPlugins(calls[k].after.files).val)) :
                           Get(PluginList(_getPlugins(calls[k].after.files).val)[j], "id")
                               = Str(calls[k].arg) }) = 1
        /\ _hasPlugin(calls[k].before.files, calls[k].arg).val
               => calls[k].after.files = calls[k].before.files

\* C25: of the std messages handed to _onStd, live or from the cached
\* list, in any order, those of one id are written at most once, and a
\* message of another session is never written.
C25_StdWrittenAtMostOnce ==
    /\ \A id \in { std.id : std \in Messages } :
           Cardinality({ n \in 1..Len(app.written) : app.written[n].id = id }) <= 1
    /\ \A n \in 1..Len(app.written) : app.written[n].session = app._session

\* C25 witness: a message came live, came again in the cached list with a
\* message of another session before it, and was written once.
C25_Witness ==
    /\ io.subscribe = "settled"
    /\ io.live = 1
    /\ Len(io.handled) = 3
    /\ io.handled[1].session = app._session
    /\ io.handled[2].session # app._session
    /\ io.handled[3] = io.handled[1]
    /\ app.written = << io.handled[1] >>

\* C26: from the first Ctrl+C on (_exiting set) nothing more is written,
\* stopApp is requested at most once however often Ctrl+C is pressed, and
\* when the stop attempt settles, or cannot be made, the process exits.
C26_ExitingOnce ==
    /\ [](io.stopApp <= 1)
    /\ [][/\ app._exiting => (app'.written = app.written /\ app'._exiting)
          /\ (io.ctrlC = "stopApp" /\ io'.ctrlC # io.ctrlC) => io'.ctrlC = "exited"
          /\ (io.ctrlC = "getActiveHomey" /\ io'.ctrlC # io.ctrlC)
                 => io'.ctrlC \in { "stopApp", "exited" }
          /\ io.ctrlC = "exited" => io' = io /\ app' = app
          /\ io'.stopApp > io.stopApp => io.ctrlC = "getActiveHomey"]_vars

\* C26 witness: Ctrl+C was pressed twice, a message of the session arrived
\* after the first and was not written, stopApp was requested once and the
\* process has exited.
C26_Witness ==
    /\ io.presses = 2
    /\ io.stopApp = 1
    /\ io.ctrlC = "exited"
    /\ \E n \in 1..Len(io.handled) :
           /\ io.handled[n].session = app._session
           /\ \A m \in 1..Len(app.written) : app.written[m].id # io.handled[n].id
====
